---------------------------- MODULE Spec2Model ----------------------------
(***************************************************************************)
(* Model of the middleclassmap.co.uk dataset builder and of the geodesy    *)
(* library it vendors (Dms, Vector3d, LatLonEllipsoidal, Cartesian, datum  *)
(* conversion and OsGridRef).                                              *)
(*                                                                         *)
(* Numbers.  A JavaScript number is a record [k, v]: k = "num" with v the  *)
(* value as an integer count of units, k = "nan", or k = "inf" with v the  *)
(* sign.  Angles are counted in arc-seconds (Scale units per degree), so   *)
(* the arithmetic of the wrap functions is exact on that grid; binary      *)
(* floating-point rounding is not modelled.  null is [k |-> "null"], text  *)
(* is [k |-> "str", s |-> <<chars>>].                                      *)
(***************************************************************************)
EXTENDS Integers, Sequences, FiniteSets, TLC

VARIABLES
    dmsDeg,        \* Dms: the degree value handed to the function called last
    dmsFormat,        \* Dms: the format handed to it
    dmsDp,         \* Dms: the number of decimals handed to it
    dmsFn,         \* Dms: the function called last ("none" before any call)
    dmsRet,        \* Dms: the value a wrap function returned
    dmsText        \* Dms: the text a formatting function returned

dmsVars == <<dmsDeg, dmsFormat, dmsDp, dmsFn, dmsRet, dmsText>>

VARIABLES
    llPoint,    \* LatLon: the fields of the point object (NoObject before any exists)
    thrown      \* LatLon: what the last constructor or setter call threw ("none" if nothing)

pointVars == <<llPoint, thrown>>

VARIABLES
    gridCall,     \* OsGridRef: the constructor, parse or toOsGrid call made last, with its arguments
    grid,         \* OsGridRef: the grid reference it returned (NoObject if it threw)
    gridErr,      \* OsGridRef: the name of the error it threw ("none" if it returned)
    gridMessage   \* OsGridRef: the message of an error thrown by toOsGrid, or the text toString returned

gridVars == <<gridCall, grid, gridErr, gridMessage>>

VARIABLES
    coreCall,     \* transformations: the method called last, with its arguments
    heap0,        \* transformations: the instances before the call, receiver first
    heap,         \* transformations: the instances after the call
    coreRet,      \* transformations: what the call returned (a reference or a number)
    coreErr,      \* transformations: the name of the error it threw ("none" if it returned)
    datumTable    \* the datum records shared by all points

coreVars == <<coreCall, heap0, heap, coreRet, coreErr, datumTable>>

VARIABLES
    buildPc,      \* build: where run() is ("idle" before it is called)
    file,         \* build: the lines of the raster file
    lineNo,       \* build: the lines loadPopulationData has read
    rows,         \* build: the rows array of loadPopulationData
    loads,        \* build: the calls of loadPopulationData
    population,   \* build: the raster run() holds (undefined before the load returns)
    entries,      \* build: the items of the dataset, group after group
    todo,         \* build: the items run() has still to visit
    features,     \* build: data.features
    queries,      \* build: the raster each getPopulation call was handed, and the lines read by then
    buildErr,     \* build: the error run() or the write was rejected with ("none" if none)
    exitCode      \* build: the status process.exit was called with (undefined while it runs)

buildVars ==
    <<buildPc, file, lineNo, rows, loads, population, entries, todo, features, queries, buildErr,
      exitCode>>

VARIABLES
    activeGroups,   \* website: the groups of the Set activeGroups, in the order they were added
    toggles,        \* website: the title and aria-pressed attributes of each group's button
    filters         \* website: the groups listed by the filter of each layer (undefined if never set)

siteVars == <<activeGroups, toggles, filters>>

vars == <<dmsVars, pointVars, gridVars, coreVars, buildVars, siteVars>>

\* what the calls of one part of the program leave alone
otherThanDms == <<pointVars, gridVars, coreVars, buildVars, siteVars>>
otherThanPoint == <<dmsVars, gridVars, coreVars, buildVars, siteVars>>
otherThanGrid == <<dmsVars, pointVars, coreVars, buildVars, siteVars>>
otherThanCore == <<dmsVars, pointVars, gridVars, buildVars, siteVars>>
otherThanBuild == <<dmsVars, pointVars, gridVars, coreVars, siteVars>>
otherThanSite == <<dmsVars, pointVars, gridVars, coreVars, buildVars>>

---------------------------------------------------------------------------
(* JavaScript numbers *)

\* arc-seconds per degree: the unit angles are counted in
Scale == 60 * 60

NaN == [k |-> "nan", v |-> 0]
PosInf == [k |-> "inf", v |-> 1]
NegInf == [k |-> "inf", v |-> -1]
Num(n) == [k |-> "num", v |-> n]

\* n degrees, in units
Deg(n) == n * Scale

IsNaNNum(x) == x.k = "nan"
IsFiniteNum(x) == x.k = "num"

\* a <= b on numbers: false as soon as one side is NaN
JsLe(a, b) ==
    CASE a.k = "nan" \/ b.k = "nan" -> FALSE
      [] a.k = "inf" -> a.v = -1 \/ (b.k = "inf" /\ b.v = 1)
      [] b.k = "inf" -> b.v = 1
      [] OTHER -> a.v <= b.v

\* a < b on numbers
JsLt(a, b) ==
    CASE a.k = "nan" \/ b.k = "nan" -> FALSE
      [] a.k = "inf" -> a.v = -1 /\ ~(b.k = "inf" /\ b.v = -1)
      [] b.k = "inf" -> b.v = 1
      [] OTHER -> a.v < b.v

\* a + c and a - c for a finite c (in units)
JsAdd(a, c) ==
    CASE a.k = "num" -> Num(a.v + c)
      [] OTHER -> a

JsSub(a, c) == JsAdd(a, -c)

\* the remainder operator a % p, p a finite positive number of units: the
\* result takes the sign of the dividend, and Infinity % p is NaN
JsRem(a, p) ==
    CASE a.k = "num" -> Num(IF a.v >= 0 THEN a.v % p ELSE -((-a.v) % p))
      [] OTHER -> NaN

\* Math.abs
JsAbs(a) ==
    CASE a.k = "num" -> Num(IF a.v < 0 THEN -a.v ELSE a.v)
      [] a.k = "inf" -> PosInf
      [] OTHER -> NaN

\* c * a for a dimensionless integer factor c
JsScale(c, a) ==
    CASE a.k = "num" -> Num(c * a.v)
      [] a.k = "inf" -> IF c = 0 THEN NaN ELSE [k |-> "inf", v |-> IF c > 0 THEN a.v ELSE -a.v]
      [] OTHER -> NaN

\* a + b on numbers
JsPlus(a, b) ==
    CASE a.k = "nan" \/ b.k = "nan" -> NaN
      [] a.k = "inf" /\ b.k = "inf" -> IF a.v = b.v THEN a ELSE NaN
      [] a.k = "inf" -> a
      [] b.k = "inf" -> b
      [] OTHER -> Num(a.v + b.v)

\* -a
JsNeg(a) ==
    CASE a.k = "num" -> Num(-a.v)
      [] a.k = "inf" -> [k |-> "inf", v |-> -a.v]
      [] OTHER -> NaN

---------------------------------------------------------------------------
(* Text: a string is a sequence of one-character strings *)

DigitChars == <<"0", "1", "2", "3", "4", "5", "6", "7", "8", "9">>

IsDigit(c) == \E i \in 1..Len(DigitChars) : DigitChars[i] = c

DigitVal(c) == (CHOOSE i \in 1..Len(DigitChars) : DigitChars[i] = c) - 1

IsSpace(c) == c = " "

RECURSIVE Pow10(_)
Pow10(n) == IF n <= 0 THEN 1 ELSE 10 * Pow10(n - 1)

\* the value of a run of digit characters ("" counts 0)
RECURSIVE DigitsVal(_)
DigitsVal(s) ==
    IF s = <<>> THEN 0
    ELSE 10 * DigitsVal(SubSeq(s, 1, Len(s) - 1)) + DigitVal(s[Len(s)])

AllDigits(s) == \A i \in 1..Len(s) : IsDigit(s[i])

\* Number.prototype.toString of a non-negative integer
RECURSIVE IntToStr(_)
IntToStr(n) ==
    IF n < 10 THEN <<DigitChars[n + 1]>>
    ELSE IntToStr(n \div 10) \o <<DigitChars[(n % 10) + 1]>>

\* String.prototype.padStart(width, '0')
RECURSIVE PadStart0(_, _)
PadStart0(s, width) == IF Len(s) >= width THEN s ELSE PadStart0(<<"0">> \o s, width)

\* String.prototype.padEnd(width, '0')
RECURSIVE PadEnd0(_, _)
PadEnd0(s, width) == IF Len(s) >= width THEN s ELSE PadEnd0(s \o <<"0">>, width)

\* String.prototype.trim
RECURSIVE TrimStart(_)
TrimStart(s) == IF s # <<>> /\ IsSpace(s[1]) THEN TrimStart(Tail(s)) ELSE s

RECURSIVE TrimEnd(_)
TrimEnd(s) ==
    IF s # <<>> /\ IsSpace(s[Len(s)]) THEN TrimEnd(SubSeq(s, 1, Len(s) - 1)) ELSE s

Trim(s) == TrimEnd(TrimStart(s))

\* the last element of a sequence
Last(s) == s[Len(s)]

\* String.prototype.slice(-n): the last n characters
SliceLast(s, n) == IF Len(s) <= n THEN s ELSE SubSeq(s, Len(s) - n + 1, Len(s))

RECURSIVE Gcd(_, _)
Gcd(a, b) == IF b = 0 THEN a ELSE Gcd(b, a % b)

\* a non-negative quantity n/d rounded to dp decimals, as the integer count
\* of 10^-dp steps (Number.prototype.toFixed rounds a tie upwards)
FixedSteps(n, d, dp) ==
    (n \div d) * Pow10(dp)
        + (2 * (n % d) * (Pow10(dp) \div Gcd(Pow10(dp), d)) + d \div Gcd(Pow10(dp), d))
            \div (2 * (d \div Gcd(Pow10(dp), d)))

\* Number.prototype.toFixed(dp) of the non-negative quantity n/d
ToFixed(n, d, dp) ==
    LET q == FixedSteps(n, d, dp)
    IN  IF dp = 0 THEN IntToStr(q)
        ELSE IntToStr(q \div Pow10(dp)) \o <<".">> \o PadStart0(IntToStr(q % Pow10(dp)), dp)

\* a signed decimal literal [-]digits[.digits], or nothing else
IsDecimalLiteral(s) ==
    LET u == IF s # <<>> /\ s[1] \in {"-", "+"} THEN Tail(s) ELSE s
        dots == {i \in 1..Len(u) : u[i] = "."}
    IN  /\ u # <<>>
        /\ Cardinality(dots) <= 1
        /\ \A i \in 1..Len(u) : IsDigit(u[i]) \/ u[i] = "."
        /\ \E i \in 1..Len(u) : IsDigit(u[i])

\* the value of a decimal literal, in units of 1/scale
DecimalVal(s, scale) ==
    LET neg == s # <<>> /\ s[1] = "-"
        u == IF s # <<>> /\ s[1] \in {"-", "+"} THEN Tail(s) ELSE s
        dots == {i \in 1..Len(u) : u[i] = "."}
        dot == IF dots = {} THEN Len(u) + 1 ELSE CHOOSE i \in dots : TRUE
        ip == SubSeq(u, 1, dot - 1)
        fp == SubSeq(u, dot + 1, Len(u))
        mag == DigitsVal(ip) * scale + (DigitsVal(fp) * scale) \div Pow10(Len(fp))
    IN  IF neg THEN -mag ELSE mag

\* Number(x) of a value: null is 0, true 1, false 0, blank text 0, a decimal
\* literal its value, the text Infinity infinite, any other text NaN
ToNumber(x, scale) ==
    CASE x.k \in {"num", "nan", "inf"} -> x
      [] x.k = "null" -> Num(0)
      [] x.k = "undefined" -> NaN
      [] x.k = "bool" -> Num(IF x.v THEN scale ELSE 0)
      [] x.k = "str" ->
            LET t == Trim(x.s)
            IN  CASE t = <<>> -> Num(0)
                  [] IsDecimalLiteral(t) -> Num(DecimalVal(t, scale))
                  [] t = <<"I", "n", "f", "i", "n", "i", "t", "y">> -> PosInf
                  [] t = <<"-", "I", "n", "f", "i", "n", "i", "t", "y">> -> NegInf
                  [] OTHER -> NaN

Null == [k |-> "null"]
Undefined == [k |-> "undefined"]
Bool(b) == [k |-> "bool", v |-> b]
Str(s) == [k |-> "str", s |-> s]

\* the global isNaN(x): Number(x) is NaN
IsNaN(x, scale) == IsNaNNum(ToNumber(x, scale))

\* the global isFinite(x)
IsFinite(x, scale) == IsFiniteNum(ToNumber(x, scale))

---------------------------------------------------------------------------
(* Dms: the wrap functions *)

\* amplitude and period of the wrap functions, in degrees
Wrap90Amplitude == 90
Wrap180Amplitude == 180
WrapPeriod == 360

\* a mutant of wrap90: modulo truncation instead of the triangle wave
wrap90_truncating(degrees) ==
    IF /\ JsLe(Num(Deg(-Wrap90Amplitude)), ToNumber(degrees, Scale))
       /\ JsLe(ToNumber(degrees, Scale), Num(Deg(Wrap90Amplitude)))
    THEN degrees
    ELSE JsRem(ToNumber(degrees, Scale), Deg(Wrap90Amplitude))

wrap90(degrees) ==
    IF /\ JsLe(Num(Deg(-Wrap90Amplitude)), ToNumber(degrees, Scale))
       /\ JsLe(ToNumber(degrees, Scale), Num(Deg(Wrap90Amplitude)))
    THEN degrees
    ELSE LET x == ToNumber(degrees, Scale)
             a == Wrap90Amplitude
             p == WrapPeriod
         IN  JsSub(JsScale((4 * a) \div p,
                           JsAbs(JsSub(JsRem(JsAdd(JsRem(JsSub(x, Deg(p) \div 4), Deg(p)),
                                                   Deg(p)),
                                             Deg(p)),
                                       Deg(p) \div 2))),
                   Deg(a))

wrap180(degrees) ==
    IF /\ JsLe(Num(Deg(-Wrap180Amplitude)), ToNumber(degrees, Scale))
       /\ JsLe(ToNumber(degrees, Scale), Num(Deg(Wrap180Amplitude)))
    THEN degrees
    ELSE LET x == ToNumber(degrees, Scale)
             a == Wrap180Amplitude
             p == WrapPeriod
         IN  JsSub(JsRem(JsAdd(JsRem(JsSub(JsScale((2 * a) \div p, x), Deg(p) \div 2),
                                     Deg(p)),
                               Deg(p)),
                         Deg(p)),
                   Deg(a))

\* a mutant of wrap360: the remainder operator used as if it were modulo
wrap360_remainder(degrees) ==
    IF /\ JsLe(Num(0), ToNumber(degrees, Scale))
       /\ JsLt(ToNumber(degrees, Scale), Num(Deg(WrapPeriod)))
    THEN degrees
    ELSE JsRem(ToNumber(degrees, Scale), Deg(WrapPeriod))

wrap360(degrees) ==
    IF /\ JsLe(Num(0), ToNumber(degrees, Scale))
       /\ JsLt(ToNumber(degrees, Scale), Num(Deg(WrapPeriod)))
    THEN degrees
    ELSE LET x == ToNumber(degrees, Scale)
             a == Wrap180Amplitude
             p == WrapPeriod
         IN  JsRem(JsAdd(JsRem(JsScale((2 * a) \div p, x), Deg(p)), Deg(p)), Deg(p))

---------------------------------------------------------------------------
(* Dms: formatting *)

\* dmsSeparator (U+202F, narrow no-break space) and the printed symbols
DmsSeparator == "_"
DegreeSign == "deg"
PrimeSign == "'"
DoublePrimeSign == "''"
UnknownMark == <<"--">>

\* toDms returning null
DmsNull == <<"null">>

\* dp left undefined by the caller
DpUndefined == -1

InfinityText == <<"I", "n", "f", "i", "n", "i", "t", "y">>
NaNText == <<"N", "a", "N">>

\* the default number of decimals of each format
DefaultDpDeg == 4
DefaultDpMin == 2
DefaultDpSec == 0

MinutesPerDegree == 60
SecondsPerDegree == 3600
SecondsPerMinute == 60

ToDmsFormat(format, dp) ==
    IF dp = DpUndefined /\ format \notin {"d", "deg", "dm", "deg+min", "dms", "deg+min+sec"}
    THEN "d" ELSE format

ToDmsDp(format, dp) ==
    IF dp # DpUndefined THEN dp
    ELSE CASE format \in {"d", "deg"} -> DefaultDpDeg
           [] format \in {"dm", "deg+min"} -> DefaultDpMin
           [] format \in {"dms", "deg+min+sec"} -> DefaultDpSec
           [] OTHER -> DefaultDpDeg

\* the three formats of toDms for a finite magnitude v (in units)
ToDmsFinite(v, format, dp) ==
    LET r == v % Scale IN
    CASE format \in {"dm", "deg+min"} ->
            LET d0 == v \div Scale
                mq == FixedSteps(r * MinutesPerDegree, Scale, dp)
                up == mq = MinutesPerDegree * Pow10(dp)
                d == IF up THEN d0 + 1 ELSE d0
                m0 == IF up THEN ToFixed(0, 1, dp)
                      ELSE ToFixed(r * MinutesPerDegree, Scale, dp)
                mv == IF up THEN 0 ELSE mq
                m == IF mv < 10 * Pow10(dp) THEN <<"0">> \o m0 ELSE m0
            IN  SliceLast(<<"0", "0", "0">> \o IntToStr(d), 3) \o <<DegreeSign, DmsSeparator>>
                    \o m \o <<PrimeSign>>
      [] format \in {"dms", "deg+min+sec"} ->
            LET d0 == v \div Scale
                m0 == ((r * MinutesPerDegree) \div Scale) % MinutesPerDegree
                sn == (r * SecondsPerDegree) % (SecondsPerMinute * Scale)
                sq == FixedSteps(sn, Scale, dp)
                sup == sq = SecondsPerMinute * Pow10(dp)
                s0 == IF sup THEN ToFixed(0, 1, dp) ELSE ToFixed(sn, Scale, dp)
                sv == IF sup THEN 0 ELSE sq
                m1 == IF sup THEN m0 + 1 ELSE m0
                mup == m1 = MinutesPerDegree
                m == IF mup THEN 0 ELSE m1
                d == IF mup THEN d0 + 1 ELSE d0
                ss == IF sv < 10 * Pow10(dp) THEN <<"0">> \o s0 ELSE s0
            IN  SliceLast(<<"0", "0", "0">> \o IntToStr(d), 3) \o <<DegreeSign, DmsSeparator>>
                    \o SliceLast(<<"0", "0">> \o IntToStr(m), 2) \o <<PrimeSign, DmsSeparator>>
                    \o ss \o <<DoublePrimeSign>>
      [] OTHER ->
            LET q == FixedSteps(v, Scale, dp)
                d0 == ToFixed(v, Scale, dp)
                d1 == IF q < 100 * Pow10(dp) THEN <<"0">> \o d0 ELSE d0
                d2 == IF q < 10 * Pow10(dp) THEN <<"0">> \o d1 ELSE d1
            IN  d2 \o <<DegreeSign>>

\* the three formats of toDms for an infinite magnitude (-Infinity passes
\* the guards): toFixed prints Infinity or NaN and the padding slices them
ToDmsInfinite(format) ==
    CASE format \in {"dm", "deg+min"} ->
            SliceLast(<<"0", "0", "0">> \o InfinityText, 3) \o <<DegreeSign, DmsSeparator>>
                \o NaNText \o <<PrimeSign>>
      [] format \in {"dms", "deg+min+sec"} ->
            SliceLast(<<"0", "0", "0">> \o InfinityText, 3) \o <<DegreeSign, DmsSeparator>>
                \o SliceLast(<<"0", "0">> \o NaNText, 2) \o <<PrimeSign, DmsSeparator>>
                \o NaNText \o <<DoublePrimeSign>>
      [] OTHER -> InfinityText \o <<DegreeSign>>

toDms(x, format, dp) ==
    LET n == ToNumber(x, Scale) IN
    CASE IsNaNNum(n) -> DmsNull
      [] x.k = "str" /\ Trim(x.s) = <<>> -> DmsNull
      [] x.k = "bool" -> DmsNull
      [] n = PosInf -> DmsNull
      [] x.k \in {"null", "undefined"} -> DmsNull
      [] OTHER ->
            LET f == ToDmsFormat(format, dp)
                p == ToDmsDp(format, dp)
                a == JsAbs(n)
            IN  IF a.k = "inf" THEN ToDmsInfinite(f) ELSE ToDmsFinite(a.v, f, p)

toLat(x, format, dp) ==
    LET lat == toDms(wrap90(x), format, dp)
    IN  IF lat = DmsNull THEN UnknownMark
        ELSE Tail(lat) \o <<DmsSeparator>>
                \o <<IF JsLt(ToNumber(x, Scale), Num(0)) THEN "S" ELSE "N">>

toLon(x, format, dp) ==
    LET lon == toDms(wrap180(x), format, dp)
    IN  IF lon = DmsNull THEN UnknownMark
        ELSE lon \o <<DmsSeparator>>
                \o <<IF JsLt(ToNumber(x, Scale), Num(0)) THEN "W" ELSE "E">>

\* String.prototype.replace('360', '0'): the first '360' of the text
RECURSIVE Replace360(_)
Replace360(t) ==
    IF Len(t) < 3 THEN t
    ELSE IF SubSeq(t, 1, 3) = <<"3", "6", "0">> THEN <<"0">> \o SubSeq(t, 4, Len(t))
    ELSE <<t[1]>> \o Replace360(Tail(t))

toBrng(x, format, dp) ==
    LET brng == toDms(wrap360(x), format, dp)
    IN  IF brng = DmsNull THEN UnknownMark ELSE Replace360(brng)

---------------------------------------------------------------------------
(* Dms.parse *)

\* String(x)
StringOf(x) ==
    CASE x.k = "str" -> x.s
      [] x.k = "nan" -> NaNText
      [] x.k = "inf" -> IF x.v < 0 THEN <<"-">> \o InfinityText ELSE InfinityText
      [] x.k = "null" -> <<"n", "u", "l", "l">>
      [] x.k = "undefined" -> <<"u", "n", "d", "e", "f", "i", "n", "e", "d">>
      [] x.k = "bool" -> IF x.v THEN <<"t", "r", "u", "e">> ELSE <<"f", "a", "l", "s", "e">>
      [] OTHER ->
            (IF x.v < 0 THEN <<"-">> ELSE <<>>)
                \o IntToStr((IF x.v < 0 THEN -x.v ELSE x.v) \div Scale)

\* isNaN(parseFloat(x)): the text of x does not start, after blanks, with a
\* decimal number (or Infinity)
ParseFloatIsNaN(x) ==
    LET t == TrimStart(StringOf(x))
        u == IF t # <<>> /\ t[1] \in {"-", "+"} THEN Tail(t) ELSE t
    IN  ~ \/ (u # <<>> /\ IsDigit(u[1]))
          \/ (Len(u) >= 2 /\ u[1] = "." /\ IsDigit(u[2]))
          \/ (Len(u) >= Len(InfinityText) /\ SubSeq(u, 1, Len(InfinityText)) = InfinityText)

\* a character of the class [0-9.,]
IsDmsPartChar(c) == IsDigit(c) \/ c = "." \/ c = ","

\* String.prototype.split(/[^0-9.,]+/): cut at every run of other characters
RECURSIVE SplitDms(_, _, _)
SplitDms(s, cur, inSep) ==
    IF s = <<>> THEN <<cur>>
    ELSE IF IsDmsPartChar(s[1]) THEN SplitDms(Tail(s), cur \o <<s[1]>>, FALSE)
    ELSE IF inSep THEN SplitDms(Tail(s), cur, TRUE)
    ELSE <<cur>> \o SplitDms(Tail(s), <<>>, TRUE)

IsCompassLetter(c) == c \in {"N", "S", "E", "W", "n", "s", "e", "w"}

\* /^-|[WS]$/i
IsNegativeDms(t) ==
    t # <<>> /\ (t[1] = "-" \/ t[Len(t)] \in {"W", "S", "w", "s"})

\* the text without its leading sign and trailing compass letter
StripSign(t) == IF t # <<>> /\ t[1] = "-" THEN Tail(t) ELSE t
StripCompass(t) ==
    IF t # <<>> /\ IsCompassLetter(t[Len(t)]) THEN SubSeq(t, 1, Len(t) - 1) ELSE t

\* the numeric parts, without the empty one a trailing separator leaves
DropEmptyLast(all) ==
    IF all[Len(all)] = <<>> THEN SubSeq(all, 1, Len(all) - 1) ELSE all

DmsParts(t) == DropEmptyLast(SplitDms(StripCompass(StripSign(t)), <<>>, FALSE))

\* d + m/60 + s/3600, d + m/60, or d, by the number of parts
DmsPart(dmsParts, i, scale) == ToNumber(Str(dmsParts[i]), scale)

DmsDegrees(dmsParts) ==
    CASE Len(dmsParts) = 3 ->
            JsPlus(JsPlus(DmsPart(dmsParts, 1, Scale),
                          DmsPart(dmsParts, 2, Scale \div MinutesPerDegree)),
                   DmsPart(dmsParts, 3, Scale \div SecondsPerDegree))
      [] Len(dmsParts) = 2 ->
            JsPlus(DmsPart(dmsParts, 1, Scale),
                   DmsPart(dmsParts, 2, Scale \div MinutesPerDegree))
      [] Len(dmsParts) = 1 -> DmsPart(dmsParts, 1, Scale)
      [] OTHER -> NaN

\* a mutant of parse: the sign and the compass letter each negate
ParseDmsText_negatedTwice(t, dmsParts) ==
    IF dmsParts = <<>> \/ dmsParts = <<<<>>>> THEN NaN
    ELSE IF t # <<>> /\ t[1] = "-" /\ t[Len(t)] \in {"W", "S", "w", "s"} THEN DmsDegrees(dmsParts)
    ELSE IF IsNegativeDms(t) THEN JsNeg(DmsDegrees(dmsParts)) ELSE DmsDegrees(dmsParts)

ParseDmsText(t, dmsParts) ==
    IF dmsParts = <<>> \/ dmsParts = <<<<>>>> THEN NaN
    ELSE IF IsNegativeDms(t) THEN JsNeg(DmsDegrees(dmsParts)) ELSE DmsDegrees(dmsParts)

TrimmedText(dms) == Trim(StringOf(dms))

parse(dms) ==
    IF ~ParseFloatIsNaN(dms) /\ IsFinite(dms, Scale) THEN ToNumber(dms, Scale)
    ELSE ParseDmsText(TrimmedText(dms), DmsParts(TrimmedText(dms)))

---------------------------------------------------------------------------
(* Ellipsoids and datums *)

\* the ellipsoids by name; their parameters a, b, f enter only the
\* floating-point formulas, which are not evaluated here
EllipsoidNames ==
    {"WGS84", "Airy1830", "AiryModified", "Bessel1841", "Clarke1866", "Clarke1880IGN",
     "GRS80", "Intl1924", "WGS72"}

\* the datums: ellipsoid and Helmert transform <<tx, ty, tz, s, rx, ry, rz>>
\* (metres, ppm, arc-seconds), each parameter counted in millionths
datums ==
    [ED50 |-> [ellipsoid |-> "Intl1924",
               transform |-> <<89500000, 93800000, 123100000, -1200000, 0, 0, 156000>>],
     ETRS89 |-> [ellipsoid |-> "GRS80", transform |-> <<0, 0, 0, 0, 0, 0, 0>>],
     Irl1975 |-> [ellipsoid |-> "AiryModified",
                  transform |-> <<-482530000, 130596000, -564557000, -8150000,
                                  1042000, 214000, 631000>>],
     NAD27 |-> [ellipsoid |-> "Clarke1866",
                transform |-> <<8000000, -160000000, -176000000, 0, 0, 0, 0>>],
     NAD83 |-> [ellipsoid |-> "GRS80",
                transform |-> <<995600, -1910300, -521500, -620, 25915, 9426, 11599>>],
     NTF |-> [ellipsoid |-> "Clarke1880IGN",
              transform |-> <<168000000, 60000000, -320000000, 0, 0, 0, 0>>],
     OSGB36 |-> [ellipsoid |-> "Airy1830",
                 transform |-> <<-446448000, 125157000, -542060000, 20489400,
                                 -150200, -247000, -842100>>],
     Potsdam |-> [ellipsoid |-> "Bessel1841",
                  transform |-> <<-582000000, -105000000, -414000000, -8300000,
                                  1040000, 350000, -3080000>>],
     TokyoJapan |-> [ellipsoid |-> "Bessel1841",
                     transform |-> <<148000000, -507000000, -685000000, 0, 0, 0, 0>>],
     WGS72 |-> [ellipsoid |-> "WGS72", transform |-> <<0, 0, -4500000, -220000, 0, 0, 554000>>],
     WGS84 |-> [ellipsoid |-> "WGS84", transform |-> <<0, 0, 0, 0, 0, 0, 0>>]]

DatumNames == DOMAIN datums

\* what a caller can hand over as a datum: one of the datums (by name),
\* undefined, null, or an object with no ellipsoid property
DatumUndefined == "undefined"
DatumNull == "null"
DatumNoEllipsoid == "{}"
DatumArgs == DatumNames \cup {DatumUndefined, DatumNull, DatumNoEllipsoid}

\* !datum || datum.ellipsoid == undefined
IsUnrecognisedDatum(datum) == datum \notin DatumNames

---------------------------------------------------------------------------
(* LatLonEllipsoidal and LatLonEllipsoidal_Datum: construction and setters *)

\* metres are counted whole: Number(height)
HeightScale == 1

NoObject == [cls |-> "none"]

\* x == null (null or undefined)
IsNullish(x) == x.k \in {"null", "undefined"}

\* the outcome of a call: a thrown error (and no value) or a value
Throw(e) == [err |-> e, val |-> NoObject]
Return(v) == [err |-> "none", val |-> v]

\* new LatLonEllipsoidal(lat, lon, height)
LatLonEllipsoidal(lat, lon, height) ==
    LET h == IF height.k = "undefined" THEN Num(0) ELSE height IN
    CASE IsNaN(lat, Scale) \/ IsNullish(lat) -> Throw("TypeError")
      [] IsNaN(lon, Scale) \/ IsNullish(lon) -> Throw("TypeError")
      [] IsNaN(h, HeightScale) \/ IsNullish(h) -> Throw("TypeError")
      [] OTHER ->
            Return([cls |-> "LatLonEllipsoidal",
                    _lat |-> wrap90(ToNumber(lat, Scale)),
                    _lon |-> wrap180(ToNumber(lon, Scale)),
                    _height |-> ToNumber(h, HeightScale),
                    _datum |-> DatumUndefined])

\* new LatLonEllipsoidal_Datum(lat, lon, height, datum); LatLon_OsGridRef
\* inherits this constructor
LatLonEllipsoidal_Datum(cls, lat, lon, height, datum) ==
    LET d == IF datum = DatumUndefined THEN "WGS84" ELSE datum
        base == LatLonEllipsoidal(lat, lon, height)
    IN  CASE IsUnrecognisedDatum(d) -> Throw("TypeError")
          [] base.err # "none" -> base
          [] OTHER -> Return([base.val EXCEPT !.cls = cls, !._datum = d])

\* set lat / set latitude: the field is assigned first, then tested
SetLatOutcome(obj, lat) ==
    LET v == IF IsNaN(lat, Scale) THEN wrap90(parse(lat)) ELSE wrap90(ToNumber(lat, Scale))
    IN  [err |-> IF IsNaNNum(v) THEN "TypeError" ELSE "none",
         val |-> [obj EXCEPT !._lat = v]]

\* set lon / set lng / set longitude
SetLonOutcome(obj, lon) ==
    LET v == IF IsNaN(lon, Scale) THEN wrap180(parse(lon)) ELSE wrap180(ToNumber(lon, Scale))
    IN  [err |-> IF IsNaNNum(v) THEN "TypeError" ELSE "none",
         val |-> [obj EXCEPT !._lon = v]]

\* set height
SetHeightOutcome(obj, height) ==
    LET v == ToNumber(height, HeightScale)
    IN  [err |-> IF IsNaNNum(v) THEN "TypeError" ELSE "none",
         val |-> [obj EXCEPT !._height = v]]

---------------------------------------------------------------------------
(* OsGridRef: constructor and parse *)

\* eastings and northings are counted in millimetres
GridScale == 1000
Metres(m) == m * GridScale

MaxEasting == 700000
MaxNorthing == 1300000

\* a mutant of the constructor: no upper limit on the easting
OsGridRef_unlimited(easting, northing) ==
    CASE IsNaN(easting, GridScale) \/ JsLt(ToNumber(easting, GridScale), Num(0)) ->
            Throw("RangeError")
      [] \/ IsNaN(northing, GridScale)
         \/ JsLt(ToNumber(northing, GridScale), Num(0))
         \/ JsLt(Num(Metres(MaxNorthing)), ToNumber(northing, GridScale)) ->
            Throw("RangeError")
      [] OTHER ->
            Return([cls |-> "OsGridRef",
                    easting |-> ToNumber(easting, GridScale),
                    northing |-> ToNumber(northing, GridScale)])

\* new OsGridRef(easting, northing)
OsGridRef(easting, northing) ==
    CASE \/ IsNaN(easting, GridScale)
         \/ JsLt(ToNumber(easting, GridScale), Num(0))
         \/ JsLt(Num(Metres(MaxEasting)), ToNumber(easting, GridScale)) ->
            Throw("RangeError")
      [] \/ IsNaN(northing, GridScale)
         \/ JsLt(ToNumber(northing, GridScale), Num(0))
         \/ JsLt(Num(Metres(MaxNorthing)), ToNumber(northing, GridScale)) ->
            Throw("RangeError")
      [] OTHER ->
            Return([cls |-> "OsGridRef",
                    easting |-> ToNumber(easting, GridScale),
                    northing |-> ToNumber(northing, GridScale)])

UpperCaseLetters ==
    <<"A", "B", "C", "D", "E", "F", "G", "H", "I", "J", "K", "L", "M",
      "N", "O", "P", "Q", "R", "S", "T", "U", "V", "W", "X", "Y", "Z">>
LowerCaseLetters ==
    <<"a", "b", "c", "d", "e", "f", "g", "h", "i", "j", "k", "l", "m",
      "n", "o", "p", "q", "r", "s", "t", "u", "v", "w", "x", "y", "z">>

IsLetter(c) ==
    \E i \in 1..Len(UpperCaseLetters) : c = UpperCaseLetters[i] \/ c = LowerCaseLetters[i]

\* toUpperCase().charCodeAt(i) - 'A'.charCodeAt(0), of a letter
LetterCode(c) ==
    (CHOOSE i \in 1..Len(UpperCaseLetters) :
        c = UpperCaseLetters[i] \/ c = LowerCaseLetters[i]) - 1

\* a mutant of the shuffle: 'I' is not skipped
Shuffle_counting_I(l) == l

\* if (l > 7) l--
Shuffle(l) == IF l > 7 THEN l - 1 ELSE l

\* /^(\d+),\s*(\d+)$/
CommaAt(t) == CHOOSE i \in 1..Len(t) : t[i] = "," /\ \A j \in 1..(i - 1) : t[j] # ","
BeforeComma(t) == SubSeq(t, 1, CommaAt(t) - 1)
AfterComma(t) == TrimStart(SubSeq(t, CommaAt(t) + 1, Len(t)))
IsDigitRun(s) == s # <<>> /\ AllDigits(s)
IsNumericPair(t) ==
    /\ \E i \in 1..Len(t) : t[i] = ","
    /\ IsDigitRun(BeforeComma(t))
    /\ IsDigitRun(AfterComma(t))

\* String.prototype.split(/\s+/) of a text without leading or trailing blanks
RECURSIVE SplitBlanks(_, _)
SplitBlanks(s, cur) ==
    IF s = <<>> THEN <<cur>>
    ELSE IF ~IsSpace(s[1]) THEN SplitBlanks(Tail(s), cur \o <<s[1]>>)
    ELSE <<cur>> \o SplitBlanks(TrimStart(s), <<>>)

\* gridref.slice(2).trim().split(/\s+/)
NumericPart(t) == SplitBlanks(Trim(SubSeq(t, 3, Len(t))), <<>>)

\* /^[HNST][ABCDEFGHJKLMNOPQRSTUVWXYZ]\s*[0-9]+\s*[0-9]+$/i
IsGridLetters(t) ==
    /\ Len(t) >= 2
    /\ t[1] \in {"H", "N", "S", "T", "h", "n", "s", "t"}
    /\ IsLetter(t[2]) /\ t[2] \notin {"I", "i"}
IsGridDigits(en) ==
    \/ Len(en) = 1 /\ AllDigits(en[1]) /\ Len(en[1]) >= 2
    \/ Len(en) = 2 /\ IsDigitRun(en[1]) /\ IsDigitRun(en[2])
IsStandardForm(t) == IsGridLetters(t) /\ IsGridDigits(NumericPart(t))

\* if e/n not whitespace separated, split half way
SplitHalfWay(en) ==
    IF Len(en) = 1
    THEN <<SubSeq(en[1], 1, Len(en[1]) \div 2), SubSeq(en[1], Len(en[1]) \div 2 + 1, Len(en[1]))>>
    ELSE en

\* the 100km-square indexes from false origin, from the shuffled letter codes
E100km(l1, l2) == ((l1 - 2) % 5) * 5 + (l2 % 5)
N100km(l1, l2) == 19 - (l1 \div 5) * 5 - (l2 \div 5)

\* e100km + en[0], n100km + en[1]: the index is put in front of the padded digits
RefDigits == 5
EastingText(l1, l2, en) == IntToStr(E100km(l1, l2)) \o PadEnd0(en[1], RefDigits)
NorthingText(l1, l2, en) == IntToStr(N100km(l1, l2)) \o PadEnd0(en[2], RefDigits)

\* a mutant of the validation: digit groups of different lengths are let through
ParseStandardForm_unvalidated(l1, l2, en) ==
    OsGridRef(Str(EastingText(l1, l2, en)), Str(NorthingText(l1, l2, en)))

\* if (en[0].length != en[1].length) throw; then new OsGridRef(e, n)
ParseStandardForm(l1, l2, en) ==
    IF Len(en[1]) # Len(en[2]) THEN Throw("Error")
    ELSE OsGridRef(Str(EastingText(l1, l2, en)), Str(NorthingText(l1, l2, en)))

\* OsGridRef.parse(gridref), on the trimmed text
ParseGridText(t) ==
    CASE IsNumericPair(t) -> OsGridRef(Str(BeforeComma(t)), Str(AfterComma(t)))
      [] ~IsNumericPair(t) /\ ~IsStandardForm(t) -> Throw("Error")
      [] OTHER ->
            ParseStandardForm(Shuffle(LetterCode(t[1])), Shuffle(LetterCode(t[2])),
                              SplitHalfWay(NumericPart(t)))

OsGridRef_parse(gridref) == ParseGridText(Trim(StringOf(gridref)))

---------------------------------------------------------------------------
(* OsGridRef.toString *)

\* the digits toString accepts, and the default
GridDigits == {0, 2, 4, 6, 8, 10, 12, 14, 16}
DefaultDigits == 10

\* digits are counted in halves, so that 2.5 is a number of digits too
DigitsScale == 2

\* Number(digits), the default standing in for undefined
DigitsOf(digits) ==
    IF digits.k = "undefined" THEN Num(DefaultDigits * DigitsScale)
    ELSE ToNumber(digits, DigitsScale)

\* ![0, 2, 4, 6, 8, 10, 12, 14, 16].includes(Number(digits))
IsInvalidDigits(digits) ==
    ~(DigitsOf(digits).k = "num" /\ DigitsOf(digits).v \in {d * DigitsScale : d \in GridDigits})

\* digits == 0: null equals nothing but null and undefined
IsNumericFormat(digits) == digits.k # "null" /\ DigitsOf(digits) = Num(0)

\* the decimals of a count of thousandths, without trailing zeros
RECURSIVE DropTrailingZeros(_)
DropTrailingZeros(s) ==
    IF s # <<>> /\ s[Len(s)] = "0" THEN DropTrailingZeros(SubSeq(s, 1, Len(s) - 1)) ELSE s

\* toLocaleString('en', { useGrouping: false, minimumIntegerDigits: 6,
\* maximumFractionDigits: 3 }) of a length in units
MinimumIntegerDigits == 6
LocaleText(v) ==
    PadStart0(IntToStr(v \div GridScale), MinimumIntegerDigits)
        \o (IF v % GridScale = 0 THEN <<>>
            ELSE <<".">> \o DropTrailingZeros(PadStart0(IntToStr(v % GridScale), 3)))

\* the side of a square of the 100km grid, in metres
SquareMetres == 100000

\* Math.floor(e / 100000), of a length in units
Index100km(v) == v \div Metres(SquareMetres)

\* the numeric equivalents of the grid letters, 'I' skipped
LetterL1(e100km, n100km) == 19 - n100km - ((19 - n100km) % 5) + ((e100km + 10) \div 5)
LetterL2(e100km, n100km) == (((19 - n100km) * 5) % 25) + (e100km % 5)
SkipI(l) == IF l > 7 THEN l + 1 ELSE l
letterPair(e100km, n100km) ==
    <<UpperCaseLetters[SkipI(LetterL1(e100km, n100km)) + 1],
      UpperCaseLetters[SkipI(LetterL2(e100km, n100km)) + 1]>>

\* Math.floor((e % 100000) / Math.pow(10, 5 - digits / 2)), then
\* e.toString().padStart(digits / 2, '0'); half is digits / 2
ReducedText(v, half) ==
    PadStart0(IntToStr((v % Metres(SquareMetres)) \div Pow10(5 + 3 - half)), half)

\* the reference in standard format
StandardText(this, half) ==
    letterPair(Index100km(this.easting.v), Index100km(this.northing.v))
        \o <<" ">> \o ReducedText(this.easting.v, half)
        \o <<" ">> \o ReducedText(this.northing.v, half)

\* a mutant of toString: every number of digits is let through
toString_anyDigits(this, digits) ==
    IF DigitsOf(digits).k # "num" \/ DigitsOf(digits).v < 0
            \/ DigitsOf(digits).v > 16 * DigitsScale
    THEN Throw("RangeError")
    ELSE IF IsNumericFormat(digits)
    THEN Return(Str(LocaleText(this.easting.v) \o <<",">> \o LocaleText(this.northing.v)))
    ELSE Return(Str(StandardText(this, DigitsOf(digits).v \div (2 * DigitsScale))))

\* OsGridRef.prototype.toString(digits)
toString(this, digits) ==
    IF IsInvalidDigits(digits) THEN Throw("RangeError")
    ELSE IF IsNumericFormat(digits)
    THEN Return(Str(LocaleText(this.easting.v) \o <<",">> \o LocaleText(this.northing.v)))
    ELSE Return(Str(StandardText(this, DigitsOf(digits).v \div (2 * DigitsScale))))

---------------------------------------------------------------------------
(* LatLonEllipsoidal.parse and LatLonEllipsoidal_Datum.parse *)

\* an object literal handed to parse: a property that is absent is undefined
Obj(type, coordinates, latitude, lat, longitude, lng, lon, height) ==
    [k |-> "obj", type |-> type, coordinates |-> coordinates, latitude |-> latitude,
     lat |-> lat, longitude |-> longitude, lng |-> lng, lon |-> lon, height |-> height]

\* an array, and one of the datums as an argument
Array(items) == [k |-> "array", items |-> items]
DatumArg(d) == [k |-> "datum", d |-> d]

\* typeof x == 'object'
TypeofObject(x) == x.k \in {"obj", "null", "datum", "array"}

\* args[i], undefined past the end
Arg(args, i) == IF i <= Len(args) THEN args[i] ELSE Undefined

\* x || 0
OrZero(x) ==
    IF \/ x.k \in {"undefined", "null", "nan"}
       \/ (x.k = "num" /\ x.v = 0)
       \/ (x.k = "str" /\ x.s = <<>>)
       \/ (x.k = "bool" /\ ~x.v)
    THEN Num(0) ELSE x

\* Dms.parse of any value: an object reads '[object Object]'
DmsParseOf(x) == IF TypeofObject(x) /\ x.k # "null" THEN NaN ELSE parse(x)

\* !isNaN(parseFloat(x))
ParsesAsFloat(x) == ~(TypeofObject(x) /\ x.k # "null") /\ ~ParseFloatIsNaN(x)

\* typeof args[0] == 'object' && (args.length == 1 || !isNaN(parseFloat(args[1])))
IsObjectCall(args) == TypeofObject(args[1]) /\ (Len(args) = 1 \/ ParsesAsFloat(args[2]))

\* ll.type == 'Point' && Array.isArray(ll.coordinates)
IsGeoJSON(ll) == ll.k = "obj" /\ ll.type = Str(<<"P", "o", "i", "n", "t">>) /\ ll.coordinates.k = "array"

\* the properties of an object that is none of ours are all undefined
Property(ll, name) == IF ll.k = "obj" THEN ll[name] ELSE Undefined

\* lat: ll.latitude, overridden by ll.lat; lon: ll.longitude, ll.lng, ll.lon
ObjectLat(ll) ==
    IF ~IsNullish(Property(ll, "lat")) THEN Property(ll, "lat") ELSE Property(ll, "latitude")
ObjectLon(ll) ==
    IF ~IsNullish(Property(ll, "lon")) THEN Property(ll, "lon")
    ELSE IF ~IsNullish(Property(ll, "lng")) THEN Property(ll, "lng")
    ELSE Property(ll, "longitude")
ObjectHeight(ll) ==
    IF ~IsNullish(Property(ll, "height")) THEN Property(ll, "height") ELSE Undefined

\* if (args[1] != undefined) height = args[1]
HeightOverride(args, height) == IF ~IsNullish(Arg(args, 2)) THEN Arg(args, 2) ELSE height

\* lat, lon, height as the branch for a single object reads them: the
\* coordinates of a GeoJSON Point are taken as they are
ObjectFields(args) ==
    IF IsGeoJSON(args[1])
    THEN [lat |-> Arg(args[1].coordinates.items, 2),
          lon |-> Arg(args[1].coordinates.items, 1),
          height |-> HeightOverride(args, OrZero(Arg(args[1].coordinates.items, 3))),
          dms |-> FALSE]
    ELSE [lat |-> ObjectLat(args[1]),
          lon |-> ObjectLon(args[1]),
          height |-> HeightOverride(args, ObjectHeight(args[1])),
          dms |-> TRUE]

\* args[0].split(','): the text before and after its one comma
CommaCount(t) == Cardinality({i \in 1..Len(t) : t[i] = ","})
IsCommaPair(x) == x.k = "str" /\ CommaCount(x.s) = 1

\* lat, lon, height as the branch for one 'lat,lon' text reads them
TextFields(args) ==
    [lat |-> Str(SubSeq(args[1].s, 1, CommaAt(args[1].s) - 1)),
     lon |-> Str(SubSeq(args[1].s, CommaAt(args[1].s) + 1, Len(args[1].s))),
     height |-> OrZero(Arg(args, 2)),
     dms |-> TRUE]

\* lat, lon, height as the branch for regular (lat, lon) arguments reads them
RegularFields(args) ==
    [lat |-> Arg(args, 1), lon |-> Arg(args, 2), height |-> OrZero(Arg(args, 3)), dms |-> TRUE]

\* the object branch leaves lat and lon null only for null coordinates of a
\* GeoJSON Point, which are no NaN, and the branch for regular arguments then
\* reads the arguments themselves
AfterObjectBranch(args, f) ==
    IF ~f.dms /\ f.lat.k = "null" /\ f.lon.k = "null" THEN RegularFields(args) ELSE f

\* lat, lon, height as the branch taken reads them
FieldsRead(args) ==
    IF IsObjectCall(args) THEN AfterObjectBranch(args, ObjectFields(args))
    ELSE IF IsCommaPair(args[1]) THEN TextFields(args)
    ELSE RegularFields(args)

\* lat = Dms.wrap90(Dms.parse(lat)), lon = Dms.wrap180(Dms.parse(lon)) in
\* every branch but that of GeoJSON
FieldsOf(f) ==
    IF f.dms
    THEN [lat |-> wrap90(DmsParseOf(f.lat)), lon |-> wrap180(DmsParseOf(f.lon)),
          height |-> f.height]
    ELSE [lat |-> f.lat, lon |-> f.lon, height |-> f.height]

\* lat, lon, height as the branches of parse leave them
FieldsOfCall(args) == FieldsOf(FieldsRead(args))

\* isNaN(lat) || isNaN(lon)
InvalidFields(f) == IsNaN(f.lat, Scale) \/ IsNaN(f.lon, Scale)

\* new this(lat, lon, height), or the TypeError of an invalid point
PointOfFields(cls, f) ==
    IF InvalidFields(f) THEN Throw("TypeError")
    ELSE IF cls = "LatLonEllipsoidal" THEN LatLonEllipsoidal(f.lat, f.lon, f.height)
    ELSE LatLonEllipsoidal_Datum(cls, f.lat, f.lon, f.height, DatumUndefined)

\* LatLonEllipsoidal.parse(...args), called on the class cls: no argument,
\* or null alone, is a TypeError of the engine
LatLonEllipsoidal_parse(cls, args) ==
    IF Len(args) = 0 \/ (IsObjectCall(args) /\ args[1].k = "null") THEN Throw("TypeError")
    ELSE PointOfFields(cls, FieldsOfCall(args))

\* if (args.length == 4 || (args.length == 3 && typeof args[2] == 'object')) datum = args.pop()
HasDatumArg(args) == Len(args) = 4 \/ (Len(args) = 3 /\ TypeofObject(args[3]))

\* the datum an argument is: one of the datums, null, undefined, or a value
\* without an ellipsoid
DatumOfArg(x) ==
    CASE x.k = "datum" -> x.d
      [] x.k = "null" -> DatumNull
      [] x.k = "undefined" -> DatumUndefined
      [] OTHER -> DatumNoEllipsoid

\* datum = LatLonEllipsoidal_Datum.datums.WGS84, or args.pop()
DatumOfCall(args) == IF HasDatumArg(args) THEN DatumOfArg(Last(args)) ELSE "WGS84"

\* args after args.pop()
ArgsOfPoint(args) == IF HasDatumArg(args) THEN SubSeq(args, 1, Len(args) - 1) ELSE args

\* point._datum = datum
ParsedInDatum(r, datum) ==
    IF r.err # "none" THEN r ELSE Return([r.val EXCEPT !._datum = datum])

\* a mutant of parse: the datum handed over is not checked
LatLonEllipsoidal_Datum_parse_unchecked(cls, args) ==
    ParsedInDatum(LatLonEllipsoidal_parse(cls, ArgsOfPoint(args)), DatumOfCall(args))

\* LatLonEllipsoidal_Datum.parse(...args), called on the class cls
LatLonEllipsoidal_Datum_parse(cls, args) ==
    IF IsUnrecognisedDatum(DatumOfCall(args)) THEN Throw("TypeError")
    ELSE ParsedInDatum(LatLonEllipsoidal_parse(cls, ArgsOfPoint(args)), DatumOfCall(args))

---------------------------------------------------------------------------
(* Objects: a heap of instances, and references to them *)

\* a reference to the instance at place id of the heap
Ref(id) == [k |-> "ref", id |-> id]

\* the outcome of a method: the heap after it, what it returned, what it threw
Alloc(h, obj) == [heap |-> Append(h, obj), ret |-> Ref(Len(h) + 1), err |-> "none"]
Fail(h, e) == [heap |-> h, ret |-> Undefined, err |-> e]
Same(h, id) == [heap |-> h, ret |-> Ref(id), err |-> "none"]
Value(h, x) == [heap |-> h, ret |-> x, err |-> "none"]

\* new C(...): the instance joins the heap unless the constructor throws
New(h, r) == IF r.err = "none" THEN Alloc(h, r.val) ELSE Fail(h, r.err)

\* a step, then the next one on what it returned, unless it threw
Bind(r, F(_, _)) == IF r.err = "none" THEN F(r.heap, r.ret.id) ELSE r

---------------------------------------------------------------------------
(* Vector3d *)

\* vector components are counted in halves
VectorScale == 2

\* a * b and a / b on numbers counted in 1/scale
JsTimes(a, b, scale) ==
    CASE a.k = "nan" \/ b.k = "nan" -> NaN
      [] a.k = "inf" /\ b.k = "inf" -> [k |-> "inf", v |-> a.v * b.v]
      [] a.k = "inf" ->
            IF b.v = 0 THEN NaN ELSE [k |-> "inf", v |-> IF b.v > 0 THEN a.v ELSE -a.v]
      [] b.k = "inf" ->
            IF a.v = 0 THEN NaN ELSE [k |-> "inf", v |-> IF a.v > 0 THEN b.v ELSE -b.v]
      [] OTHER -> Num((a.v * b.v) \div scale)

JsDividedBy(a, b, scale) ==
    CASE a.k = "nan" \/ b.k = "nan" -> NaN
      [] a.k = "inf" /\ b.k = "inf" -> NaN
      [] a.k = "inf" -> IF b.v >= 0 THEN a ELSE JsNeg(a)
      [] b.k = "inf" -> Num(0)
      [] b.v = 0 -> IF a.v = 0 THEN NaN ELSE IF a.v > 0 THEN PosInf ELSE NegInf
      [] OTHER ->
            Num((IF (a.v < 0) = (b.v < 0) THEN 1 ELSE -1)
                    * ((JsAbs(a).v * scale) \div JsAbs(b).v))

JsMinus(a, b) == JsPlus(a, JsNeg(b))

\* new Vector3d(x, y, z)
Vector3d(x, y, z) ==
    IF IsNaN(x, VectorScale) \/ IsNaN(y, VectorScale) \/ IsNaN(z, VectorScale)
    THEN Throw("TypeError")
    ELSE Return([cls |-> "Vector3d",
                 x |-> ToNumber(x, VectorScale),
                 y |-> ToNumber(y, VectorScale),
                 z |-> ToNumber(z, VectorScale)])

\* v instanceof Vector3d
VectorClasses == {"Vector3d", "Cartesian", "Cartesian_Datum"}
IsVector3d(h, v) == v.k = "ref" /\ h[v.id].cls \in VectorClasses

\* get length: the square root, taken where it is a whole number of halves
SumOfSquares(o) == o.x.v * o.x.v + o.y.v * o.y.v + o.z.v * o.z.v
Length(o) == Num(CHOOSE n \in 0..SumOfSquares(o) : n * n = SumOfSquares(o))

Vector3d_plus(h, this, v) ==
    IF ~IsVector3d(h, v) THEN Fail(h, "TypeError")
    ELSE New(h, Vector3d(JsPlus(h[this].x, h[v.id].x), JsPlus(h[this].y, h[v.id].y),
                         JsPlus(h[this].z, h[v.id].z)))

Vector3d_minus(h, this, v) ==
    IF ~IsVector3d(h, v) THEN Fail(h, "TypeError")
    ELSE New(h, Vector3d(JsMinus(h[this].x, h[v.id].x), JsMinus(h[this].y, h[v.id].y),
                         JsMinus(h[this].z, h[v.id].z)))

Vector3d_times(h, this, x) ==
    IF IsNaN(x, VectorScale) THEN Fail(h, "TypeError")
    ELSE New(h, Vector3d(JsTimes(h[this].x, ToNumber(x, VectorScale), VectorScale),
                         JsTimes(h[this].y, ToNumber(x, VectorScale), VectorScale),
                         JsTimes(h[this].z, ToNumber(x, VectorScale), VectorScale)))

Vector3d_dividedBy(h, this, x) ==
    IF IsNaN(x, VectorScale) THEN Fail(h, "TypeError")
    ELSE New(h, Vector3d(JsDividedBy(h[this].x, ToNumber(x, VectorScale), VectorScale),
                         JsDividedBy(h[this].y, ToNumber(x, VectorScale), VectorScale),
                         JsDividedBy(h[this].z, ToNumber(x, VectorScale), VectorScale)))

Dot(a, b) ==
    JsPlus(JsPlus(JsTimes(a.x, b.x, VectorScale), JsTimes(a.y, b.y, VectorScale)),
           JsTimes(a.z, b.z, VectorScale))

Vector3d_dot(h, this, v) ==
    IF ~IsVector3d(h, v) THEN Fail(h, "TypeError") ELSE Value(h, Dot(h[this], h[v.id]))

Cross(a, b) ==
    Vector3d(JsMinus(JsTimes(a.y, b.z, VectorScale), JsTimes(a.z, b.y, VectorScale)),
             JsMinus(JsTimes(a.z, b.x, VectorScale), JsTimes(a.x, b.z, VectorScale)),
             JsMinus(JsTimes(a.x, b.y, VectorScale), JsTimes(a.y, b.x, VectorScale)))

Vector3d_cross(h, this, v) ==
    IF ~IsVector3d(h, v) THEN Fail(h, "TypeError") ELSE New(h, Cross(h[this], h[v.id]))

Vector3d_negate(h, this) ==
    New(h, Vector3d(JsNeg(h[this].x), JsNeg(h[this].y), JsNeg(h[this].z)))

\* unit(): a vector of length 1 or 0 is returned itself
Vector3d_unit(h, this) ==
    IF Length(h[this]) = Num(VectorScale) \/ Length(h[this]) = Num(0) THEN Same(h, this)
    ELSE New(h, Vector3d(JsDividedBy(h[this].x, Length(h[this]), VectorScale),
                         JsDividedBy(h[this].y, Length(h[this]), VectorScale),
                         JsDividedBy(h[this].z, Length(h[this]), VectorScale)))

\* Math.atan2(y, x): the angle is kept as the pair it is taken of
Atan2(y, x) == [k |-> "atan2", y |-> y, x |-> x]

\* n == undefined || this.cross(v).dot(n) >= 0 ? 1 : -1
SignAbout(h, this, v, n) ==
    IF IsNullish(n) \/ JsLe(Num(0), Dot(Cross(h[this], h[v.id]).val, h[n.id]))
    THEN Num(VectorScale) ELSE Num(-VectorScale)

Vector3d_angleTo(h, this, v, n) ==
    CASE ~IsVector3d(h, v) -> Fail(h, "TypeError")
      [] IsVector3d(h, v) /\ ~(IsVector3d(h, n) \/ IsNullish(n)) -> Fail(h, "TypeError")
      [] OTHER ->
            Value(h, Atan2(JsTimes(Length(Cross(h[this], h[v.id]).val),
                                   SignAbout(h, this, v, n), VectorScale),
                           Dot(h[this], h[v.id])))

\* toRadians() of whole quarter turns, in degrees: their sine and cosine
\* are -1, 0 or 1 to the resolution of the components
HalfTurn == 180
Turns(angle) == ((2 * angle.v) \div HalfTurn) % 4
SinOf(angle) == CASE Turns(angle) = 1 -> 1 [] Turns(angle) = 3 -> -1 [] OTHER -> 0
CosOf(angle) == CASE Turns(angle) = 0 -> 1 [] Turns(angle) = 2 -> -1 [] OTHER -> 0

\* the components of a unit vector, in whole units
Whole(o) == [x |-> o.x.v \div VectorScale, y |-> o.y.v \div VectorScale, z |-> o.z.v \div VectorScale]

\* the rows of r times p, r the matrix of the rotation about a with sine s and cosine c
RotatedX(p, a, s, c) ==
    ((1 - c) * a.x * a.x + c) * p.x + ((1 - c) * a.x * a.y - s * a.z) * p.y
        + ((1 - c) * a.x * a.z + s * a.y) * p.z
RotatedY(p, a, s, c) ==
    ((1 - c) * a.x * a.y + s * a.z) * p.x + ((1 - c) * a.y * a.y + c) * p.y
        + ((1 - c) * a.y * a.z - s * a.x) * p.z
RotatedZ(p, a, s, c) ==
    ((1 - c) * a.x * a.z - s * a.y) * p.x + ((1 - c) * a.y * a.z + s * a.x) * p.y
        + ((1 - c) * a.z * a.z + c) * p.z

\* new Vector3d(rp[0], rp[1], rp[2]) for the units p and a
Rotated(p, a, s, c) ==
    Vector3d(Num(RotatedX(p, a, s, c) * VectorScale), Num(RotatedY(p, a, s, c) * VectorScale),
             Num(RotatedZ(p, a, s, c) * VectorScale))

\* this.unit() as a value
UnitOf(h, this) == Vector3d_unit(h, this).heap[Vector3d_unit(h, this).ret.id]

\* rotateAround(axis, angle): angle.toRadians() is a TypeError on what is no
\* number, and an angle that is NaN or infinite gives components that are NaN
Vector3d_rotateAround(h, this, axis, angle) ==
    CASE ~IsVector3d(h, axis) -> Fail(h, "TypeError")
      [] IsVector3d(h, axis) /\ angle.k # "num" -> Fail(h, "TypeError")
      [] OTHER ->
            New(h, Rotated(Whole(UnitOf(h, this)), Whole(UnitOf(h, axis.id)),
                           SinOf(angle), CosOf(angle)))

\* new Cartesian(x, y, z): super(x, y, z)
Cartesian_constructor(x, y, z) ==
    IF Vector3d(x, y, z).err # "none" THEN Vector3d(x, y, z)
    ELSE Return([Vector3d(x, y, z).val EXCEPT !.cls = "Cartesian"])

---------------------------------------------------------------------------
(* Cartesian and Cartesian_Datum *)

\* The coordinates of a cartesian point are kept as a term: the geodetic
\* point or the numbered position they were made of, and the Helmert
\* transforms applied since, in order.  NoXyz stands for coordinates that
\* are NaN.
Xyz(of) == [k |-> "xyz", of |-> of, applied |-> <<>>]
NoXyz == [k |-> "nan"]

\* new Cartesian(x, y, z)
Cartesian(xyz) ==
    IF xyz = NoXyz THEN Throw("TypeError")
    ELSE Return([cls |-> "Cartesian", xyz |-> xyz, _datum |-> DatumUndefined])

\* new Cartesian_Datum(x, y, z, datum): a datum that is undefined or null is not kept
Cartesian_Datum(xyz, datum) ==
    CASE datum = DatumNoEllipsoid -> Throw("TypeError")
      [] datum # DatumNoEllipsoid /\ xyz = NoXyz -> Throw("TypeError")
      [] OTHER ->
            Return([cls |-> "Cartesian_Datum", xyz |-> xyz,
                    _datum |-> IF datum \in DatumNames THEN datum ELSE DatumUndefined])

\* set datum(datum) of the instance at id
SetDatum(h, id, datum) ==
    IF IsUnrecognisedDatum(datum) THEN Fail(h, "TypeError")
    ELSE Same([h EXCEPT ![id]._datum = datum], id)

\* the transform with all parameters negated
Negated(t) == [i \in DOMAIN t |-> -t[i]]

\* a mutant of applyTransform: the coordinates of the receiver are overwritten
Cartesian_Datum_applyTransform_inplace(h, this, t) ==
    Same([h EXCEPT ![this].xyz.applied = Append(@, t), ![this]._datum = DatumUndefined], this)

\* applyTransform(t): a new point without datum
Cartesian_Datum_applyTransform(h, this, t) ==
    New(h, Cartesian_Datum([h[this].xyz EXCEPT !.applied = Append(@, t)], DatumUndefined))

\* a mutant of the choice of transform: the inverse is not negated
TransformBetween_unnegated(from, to) ==
    IF to = "WGS84" THEN datums[from].transform ELSE datums[to].transform

\* the transform applied last: the target's, or towards WGS84 the source's negated
TransformBetween(from, to) ==
    IF to = "WGS84" THEN Negated(datums[from].transform) ELSE datums[to].transform

\* convertDatum(toDatum)
RECURSIVE Cartesian_Datum_convertDatum(_, _, _)

\* oldCartesian: this, or this converted to WGS84 when neither datum is WGS84
OldCartesian(h, this, toDatum) ==
    IF h[this]._datum = "WGS84" \/ toDatum = "WGS84" THEN Same(h, this)
    ELSE Cartesian_Datum_convertDatum(h, this, "WGS84")

\* newCartesian = oldCartesian.applyTransform(transform); newCartesian.datum = toDatum
NewCartesian(h, old, transform, toDatum) ==
    Bind(Cartesian_Datum_applyTransform(h, old, transform),
         LAMBDA h2, new : SetDatum(h2, new, toDatum))

Cartesian_Datum_convertDatum(h, this, toDatum) ==
    CASE IsUnrecognisedDatum(toDatum) -> Fail(h, "TypeError")
      [] ~IsUnrecognisedDatum(toDatum) /\ h[this]._datum = DatumUndefined ->
            Fail(h, "TypeError")
      [] OTHER ->
            Bind(OldCartesian(h, this, toDatum),
                 LAMBDA h1, old :
                    NewCartesian(h1, old, TransformBetween(h[this]._datum, toDatum), toDatum))

\* The arithmetic of applyTransform, for coordinates that are given as
\* numbers: in whole centimetres, with the shifts cut to centimetres and the
\* rotations to 1e-9 radians, every quotient taken towards zero.
Quot(a, b) == IF a < 0 THEN -((-a) \div b) ELSE a \div b

\* t[0..2]: a shift, from millionths of a metre
ShiftCm(t) == Quot(t, 10000)

\* x1 * (t[3] / 1e6), the scale in millionths of a part per million
ScaledBy(x, s) == Quot(Quot(x, 10000) * Quot(s, 1000), 100000)

\* (r / 3600).toRadians(), in 1e-9 radians: an arc-second is 4.8481e-6 radians
NanoRadiansPerArcSecond == 4848
ToNanoRadians(r) == Quot(Quot(r, 1000) * NanoRadiansPerArcSecond, 1000)

\* x1 * r for a rotation in millionths of an arc-second
RotatedBy(x, r) == Quot(Quot(x, 10000) * ToNanoRadians(r), 100000)

\* x2, y2, z2 of applyTransform(t) for the coordinates p
HelmertCm(p, t) ==
    <<ShiftCm(t[1]) + p[1] + ScaledBy(p[1], t[4]) - RotatedBy(p[2], t[7]) + RotatedBy(p[3], t[6]),
      ShiftCm(t[2]) + RotatedBy(p[1], t[7]) + p[2] + ScaledBy(p[2], t[4]) - RotatedBy(p[3], t[5]),
      ShiftCm(t[3]) - RotatedBy(p[1], t[6]) + RotatedBy(p[2], t[5]) + p[3] + ScaledBy(p[3], t[4])>>

\* the coordinates after the transforms applied, in order
RECURSIVE AfterTransforms(_, _)
AfterTransforms(p, applied) ==
    IF applied = <<>> THEN p ELSE AfterTransforms(HelmertCm(p, applied[1]), Tail(applied))

---------------------------------------------------------------------------
(* Between geodetic and cartesian coordinates *)

\* the ellipsoid of a point: that of its datum, WGS84 without one
EllipsoidOf(o) == IF o._datum \in DatumNames THEN datums[o._datum].ellipsoid ELSE "WGS84"

\* x, y, z of LatLonEllipsoidal.toCartesian(): NaN as soon as a field is NaN
GeodeticXyz(o) ==
    IF ~IsFiniteNum(o._lat) \/ ~IsFiniteNum(o._lon) \/ ~IsFiniteNum(o._height) THEN NoXyz
    ELSE Xyz([lat |-> o._lat, lon |-> o._lon, height |-> o._height, ellipsoid |-> EllipsoidOf(o)])

\* LatLonEllipsoidal.toCartesian()
LatLonEllipsoidal_toCartesian(h, this) == New(h, Cartesian(GeodeticXyz(h[this])))

\* LatLonEllipsoidal_Datum.toCartesian()
LatLonEllipsoidal_Datum_toCartesian(h, this) ==
    Bind(LatLonEllipsoidal_toCartesian(h, this),
         LAMBDA h1, cartesian : New(h1, Cartesian_Datum(h1[cartesian].xyz, h[this]._datum)))

\* Cartesian.toLatLon(ellipsoid): geo is the latitude, longitude and height
\* the formulas of Bowring give
Cartesian_toLatLon(h, this, geo) == New(h, LatLonEllipsoidal(geo.lat, geo.lon, geo.height))

\* deprecatedDatum is truthy
IsTruthyDatum(datum) == datum \notin {DatumUndefined, DatumNull}

\* if (deprecatedDatum) this.datum = deprecatedDatum
WithDeprecatedDatum(h, this, deprecatedDatum) ==
    IF IsTruthyDatum(deprecatedDatum) THEN SetDatum(h, this, deprecatedDatum) ELSE Same(h, this)

\* new LatLonEllipsoidal_Datum(latLon.lat, latLon.lon, latLon.height, this.datum)
DatumPointOf(h, cls, latLon, datum) ==
    New(h, LatLonEllipsoidal_Datum(cls, h[latLon]._lat, h[latLon]._lon, h[latLon]._height, datum))

\* Cartesian_Datum.toLatLon(deprecatedDatum)
Cartesian_Datum_toLatLon(h, this, deprecatedDatum, geo) ==
    Bind(WithDeprecatedDatum(h, this, deprecatedDatum),
         LAMBDA h1, self :
            Bind(Cartesian_toLatLon(h1, self, geo),
                 LAMBDA h2, latLon :
                    DatumPointOf(h2, "LatLonEllipsoidal_Datum", latLon, h2[self]._datum)))

\* LatLonEllipsoidal_Datum.convertDatum(toDatum)
LatLonEllipsoidal_Datum_convertDatum(h, this, toDatum, geo) ==
    IF IsUnrecognisedDatum(toDatum) THEN Fail(h, "TypeError")
    ELSE Bind(LatLonEllipsoidal_Datum_toCartesian(h, this),
              LAMBDA h1, oldCartesian :
                Bind(Cartesian_Datum_convertDatum(h1, oldCartesian, toDatum),
                     LAMBDA h2, newCartesian :
                        Cartesian_Datum_toLatLon(h2, newCartesian, DatumUndefined, geo)))

\* LatLon_OsGridRef.convertDatum(toDatum)
LatLon_OsGridRef_convertDatum(h, this, toDatum, geo) ==
    Bind(LatLonEllipsoidal_Datum_convertDatum(h, this, toDatum, geo),
         LAMBDA h1, osgbED : DatumPointOf(h1, "LatLon_OsGridRef", osgbED, h1[osgbED]._datum))

---------------------------------------------------------------------------
(* Between geodetic points and grid references *)

\* a value of the series before rounding: mm whole millimetres (rounded
\* down) and t further tenths of a millimetre
Raw(mm, t) == [k |-> "num", v |-> mm, t |-> t]

\* Number(x.toFixed(3)): to the nearest millimetre, a tie away from zero
RoundToMillimetres(x) ==
    IF x.k # "num" THEN x
    ELSE IF x.v >= 0 THEN Num(x.v + (IF x.t >= 5 THEN 1 ELSE 0))
    ELSE Num(x.v + (IF x.t > 5 THEN 1 ELSE 0))

\* Number.prototype.toFixed(dp) of a number counted in units of 1/scale
NumberToFixed(x, scale, dp) ==
    CASE x.k = "nan" -> NaNText
      [] x.k = "inf" -> IF x.v < 0 THEN <<"-">> \o InfinityText ELSE InfinityText
      [] OTHER -> (IF x.v < 0 THEN <<"-">> ELSE <<>>)
                      \o ToFixed(IF x.v < 0 THEN -x.v ELSE x.v, scale, dp)

\* decimals of the latitude and longitude in the message
MessageDp == 6
NoMessage == [what |-> "none"]

\* e.message of the RangeError of the constructor
OsGridRefMessage(easting) ==
    IF \/ IsNaN(easting, GridScale)
       \/ JsLt(ToNumber(easting, GridScale), Num(0))
       \/ JsLt(Num(Metres(MaxEasting)), ToNumber(easting, GridScale))
    THEN "invalid easting" ELSE "invalid northing"

\* a mutant of the choice of the point: the receiver is projected as it is
PointToProject_unconverted(h, this, geo) == Same(h, this)

\* point: this, or this converted to OSGB36; geo is the latitude, longitude
\* and height the conversion arrives at
PointToProject(h, this, geo) ==
    IF h[this]._datum = "OSGB36" THEN Same(h, this)
    ELSE LatLon_OsGridRef_convertDatum(h, this, "OSGB36", geo)

\* try { return new OsGridRef(E, N) } catch (e) { throw new Error(...) }
GridOfProjection(h, E, N) ==
    IF OsGridRef(E, N).err = "none" THEN New(h, OsGridRef(E, N)) ELSE Fail(h, "Error")

\* `${e.message} from (${point.lat.toFixed(6)},${point.lon.toFixed(6)}).toOsGrid()`
MessageOfProjection(point, E, N) ==
    IF OsGridRef(E, N).err = "none" THEN NoMessage
    ELSE [what |-> OsGridRefMessage(E),
          lat |-> NumberToFixed(point._lat, Scale, MessageDp),
          lon |-> NumberToFixed(point._lon, Scale, MessageDp)]

\* toOsGrid(): E and N are the values the series give for the point
LatLon_OsGridRef_toOsGrid(h, this, geo, E, N) ==
    Bind(PointToProject(h, this, geo),
         LAMBDA h1, point :
            GridOfProjection(h1, RoundToMillimetres(E), RoundToMillimetres(N)))

\* the message of the error toOsGrid() throws from its catch clause
ToOsGridMessage(h, this, geo, E, N) ==
    IF PointToProject(h, this, geo).err # "none" THEN NoMessage
    ELSE MessageOfProjection(
            PointToProject(h, this, geo).heap[PointToProject(h, this, geo).ret.id],
            RoundToMillimetres(E), RoundToMillimetres(N))

\* datum = LatLonEllipsoidal_Datum.datums.WGS84 (default parameter)
DefaultWGS84(datum) == IF datum = DatumUndefined THEN "WGS84" ELSE datum

\* the end of OsGridRef.toLatLon(datum): the point on OSGB36, converted if
\* another datum is asked for and made a LatLon_OsGridRef again
InDatum(h, point, datum, geo) ==
    IF datum = "OSGB36" THEN Same(h, point)
    ELSE Bind(LatLon_OsGridRef_convertDatum(h, point, datum, geo),
              LAMBDA h1, converted :
                DatumPointOf(h1, "LatLon_OsGridRef", converted, h1[converted]._datum))

\* OsGridRef.toLatLon(datum): onGrid is the latitude and longitude the
\* inverse series give, geo what the conversion of datum arrives at
OsGridRef_toLatLon(h, this, datum, onGrid, geo) ==
    Bind(New(h, LatLonEllipsoidal_Datum("LatLon_OsGridRef", onGrid.lat, onGrid.lon,
                                        Num(0), "OSGB36")),
         LAMBDA h1, point : InDatum(h1, point, DefaultWGS84(datum), geo))

---------------------------------------------------------------------------
(* The dataset build: the population raster *)

\* /^[0-9-]/.test(line)
IsDataLine(line) == line # <<>> /\ (IsDigit(line[1]) \/ line[1] = "-")

\* line.trim().split(/\s+/)
SplitLine(line) == SplitBlanks(Trim(line), <<>>)

\* rows.push(items), for a line that passes the test
PushLine(arr, line) == IF IsDataLine(line) THEN Append(arr, SplitLine(line)) ELSE arr

\* Array.prototype.reverse
RECURSIVE Reverse(_)
Reverse(s) == IF s = <<>> THEN <<>> ELSE Append(Reverse(Tail(s)), s[1])

\* a mutant of the end of the for await loop: it ends after the first line
EndOfInput_afterFirstLine(lines, read) == read >= 1 \/ read = Len(lines)

\* for await (const line of rl): the loop ends when every line has been read
EndOfInput(lines, read) == read = Len(lines)

\* rows[0].length in the console.log: a TypeError when there is no row
LoadThrows(arr) == arr = <<>>

\* the leading run of digits of a text
RECURSIVE LeadingDigits(_)
LeadingDigits(s) ==
    IF s = <<>> \/ ~IsDigit(s[1]) THEN <<>> ELSE <<s[1]>> \o LeadingDigits(Tail(s))

\* parseInt(item, 10) of a text without blanks
ParseInt(s) ==
    CASE s # <<>> /\ s[1] = "-" ->
            IF LeadingDigits(Tail(s)) = <<>> THEN NaN
            ELSE Num(0 - DigitsVal(LeadingDigits(Tail(s))))
      [] s # <<>> /\ s[1] = "+" ->
            IF LeadingDigits(Tail(s)) = <<>> THEN NaN
            ELSE Num(DigitsVal(LeadingDigits(Tail(s))))
      [] OTHER ->
            IF LeadingDigits(s) = <<>> THEN NaN ELSE Num(DigitsVal(LeadingDigits(s)))

\* the text that stands for no data
NoData == <<"-", "9", "9", "9", "9">>

\* item === '-9999' ? 0 : parseInt(item, 10)
CellValue(item) == IF item = NoData THEN Num(0) ELSE ParseInt(item)

\* sum(arr)
RECURSIVE sum(_)
sum(arr) ==
    IF arr = <<>> THEN Num(0)
    ELSE JsPlus(sum(SubSeq(arr, 1, Len(arr) - 1)), CellValue(arr[Len(arr)]))

\* the index Array.prototype.slice counts from: a negative one from the end
SliceIndex(len, i) ==
    IF i < 0 THEN (IF len + i < 0 THEN 0 ELSE len + i)
    ELSE (IF i > len THEN len ELSE i)

\* arr.slice(start, end)
Slice(arr, start, end) ==
    SubSeq(arr, SliceIndex(Len(arr), start) + 1, SliceIndex(Len(arr), end))

ADJUST_X == 4
ADJUST_Y == 6
BOUND == 2

\* sum(arr) of the numbers sum returned: parseInt of a whole number, or of
\* NaN, is the number itself
RECURSIVE SumOfSums(_)
SumOfSums(arr) ==
    IF arr = <<>> THEN Num(0)
    ELSE JsPlus(SumOfSums(SubSeq(arr, 1, Len(arr) - 1)), arr[Len(arr)])

\* total(easting, northing, dataset)
total(easting, northing, dataset) ==
    SumOfSums([i \in DOMAIN Slice(dataset, northing - BOUND, northing + BOUND) |->
            sum(Slice(Slice(dataset, northing - BOUND, northing + BOUND)[i],
                      easting - BOUND, easting + BOUND))])

\* Math.round(gridRef.easting / 1000): whole kilometres of a grid coordinate
RoundToKm(metres) == (metres.v + Metres(500)) \div Metres(1000)

\* new LatLon(point[1], point[0]).toOsGrid(): series is what the conversion
\* of datum and the projection give for the point
GridRefOf(point, series) ==
    Bind(New(<<>>, LatLonEllipsoidal_Datum("LatLon_OsGridRef", point[2], point[1],
                                           Undefined, DatumUndefined)),
         LAMBDA h, wgs84 : LatLon_OsGridRef_toOsGrid(h, wgs84, series.geo, series.E, series.N))

\* the sum around the cell of a grid reference
PopulationAt(gridRef, dataset) ==
    total(RoundToKm(gridRef.easting) - ADJUST_X, RoundToKm(gridRef.northing) - ADJUST_Y, dataset)

\* getPopulation(point, dataset)
getPopulation(point, dataset, series) ==
    IF GridRefOf(point, series).err # "none" THEN Throw(GridRefOf(point, series).err)
    ELSE Return(PopulationAt(Last(GridRefOf(point, series).heap), dataset))

\* a mutant of getPointWeight: the limits compared with <=
getPointWeight_inclusive(p) ==
    CASE JsLe(p, Num(500)) -> 125
      [] ~JsLe(p, Num(500)) /\ JsLe(p, Num(2000)) -> 100
      [] ~JsLe(p, Num(2000)) /\ JsLe(p, Num(7500)) -> 75
      [] ~JsLe(p, Num(7500)) /\ JsLe(p, Num(20000)) -> 50
      [] ~JsLe(p, Num(20000)) /\ JsLe(p, Num(50000)) -> 25
      [] OTHER -> 10

\* getPointWeight(population), in hundredths
getPointWeight(p) ==
    CASE JsLt(p, Num(500)) -> 125
      [] ~JsLt(p, Num(500)) /\ JsLt(p, Num(2000)) -> 100
      [] ~JsLt(p, Num(2000)) /\ JsLt(p, Num(7500)) -> 75
      [] ~JsLt(p, Num(7500)) /\ JsLt(p, Num(20000)) -> 50
      [] ~JsLt(p, Num(20000)) /\ JsLt(p, Num(50000)) -> 25
      [] OTHER -> 10

\* isInUK(point): both coordinates are numbers and the outline holds the point
isInUK(point, inPolygon) ==
    /\ point[1].k \in {"num", "nan", "inf"}
    /\ point[2].k \in {"num", "nan", "inf"}
    /\ inPolygon

\* a mutant of the feature: the name is taken as it is
Feature_untrimmed(item, pop) ==
    [group |-> item.group, name |-> item.name, url |-> item.url,
     weight |-> getPointWeight(pop), coordinates |-> <<item.longitude, item.latitude>>]

\* the feature pushed for an item
Feature(item, pop) ==
    [group |-> item.group, name |-> Trim(item.name), url |-> item.url,
     weight |-> getPointWeight(pop), coordinates |-> <<item.longitude, item.latitude>>]

---------------------------------------------------------------------------
(* Dms.compassPoint *)

cardinals ==
    <<"N", "NNE", "NE", "ENE", "E", "ESE", "SE", "SSE",
      "S", "SSW", "SW", "WSW", "W", "WNW", "NW", "NNW">>

\* the precisions [1, 2, 3] and the default
CompassPrecisions == {1, 2, 3}
DefaultPrecision == 3

\* 2 ** k
RECURSIVE Pow2(_)
Pow2(k) == IF k = 0 THEN 1 ELSE 2 * Pow2(k - 1)

\* precisions are counted in halves, so that 1.5 is a precision too
PrecisionScale == 2

\* Number(precision), the default standing in for undefined
PrecisionOf(precision) ==
    IF precision.k = "undefined" THEN Num(DefaultPrecision * PrecisionScale)
    ELSE ToNumber(precision, PrecisionScale)

\* ![1, 2, 3].includes(Number(precision))
IsInvalidPrecision(precision) ==
    ~(/\ PrecisionOf(precision).k = "num"
      /\ PrecisionOf(precision).v \in {p * PrecisionScale : p \in CompassPrecisions})

\* n = 4 * 2 ** (precision - 1)
CompassPoints(p) == 4 * Pow2(p - 1)

\* Math.round((bearing * n) / 360), the bearing in units: halves go up
RoundedStep(b, n) == (2 * b * n + Deg(360)) \div (2 * Deg(360))

\* cardinals[((Math.round((bearing * n) / 360) % n) * 16) / n]; a bearing
\* that is no finite number indexes no cardinal
Cardinal(bearing, n) ==
    IF bearing.k = "num"
    THEN Str(<<cardinals[((RoundedStep(bearing.v, n) % n) * Len(cardinals)) \div n + 1]>>)
    ELSE Undefined

\* a mutant of compassPoint: every precision is taken for the default
compassPoint_defaultPrecision(bearing, precision) ==
    IF IsInvalidPrecision(precision) THEN Throw("RangeError")
    ELSE Return(Cardinal(ToNumber(wrap360(bearing), Scale), CompassPoints(DefaultPrecision)))

\* Dms.compassPoint(bearing, precision)
compassPoint(bearing, precision) ==
    IF IsInvalidPrecision(precision) THEN Throw("RangeError")
    ELSE Return(Cardinal(ToNumber(wrap360(bearing), Scale),
                        CompassPoints(PrecisionOf(precision).v \div PrecisionScale)))

---------------------------------------------------------------------------
(* Calls of the Dms functions *)

\* the degree values handed to the wrap functions: every whole degree up to
\* MaxDegrees either side, each also one arc-second and half a degree further on
MaxDegrees == 540
DegreeFractions == {0, 1, Scale \div 2}
DegreeInputs == {Num(Deg(d) + f) : d \in -MaxDegrees..MaxDegrees, f \in DegreeFractions}

\* the degree values handed to the formatting functions
MaxFormatDegrees == 200
FormatInputs ==
    {Num(Deg(d) + f) : d \in -MaxFormatDegrees..MaxFormatDegrees, f \in DegreeFractions}

\* the whole turns tried in the periodicity of wrap360
MaxTurns == 3

DmsFormats == {"d", "dm", "dms"}
DmsDps == {DpUndefined, 0}

IdleDms ==
    /\ dmsDeg = Num(0)
    /\ dmsFormat = "d"
    /\ dmsDp = DpUndefined
    /\ dmsFn = "none"
    /\ dmsRet = Num(0)
    /\ dmsText = <<>>

CallWrap90 ==
    \E x \in DegreeInputs :
        /\ dmsFn = "none"
        /\ dmsDeg' = x
        /\ dmsFn' = "wrap90"
        /\ dmsRet' = wrap90(x)
        /\ UNCHANGED <<dmsFormat, dmsDp, dmsText>>
        /\ UNCHANGED otherThanDms

CallWrap180 ==
    \E x \in DegreeInputs :
        /\ dmsFn = "none"
        /\ dmsDeg' = x
        /\ dmsFn' = "wrap180"
        /\ dmsRet' = wrap180(x)
        /\ UNCHANGED <<dmsFormat, dmsDp, dmsText>>
        /\ UNCHANGED otherThanDms

CallWrap360 ==
    \E x \in DegreeInputs :
        /\ dmsFn = "none"
        /\ dmsDeg' = x
        /\ dmsFn' = "wrap360"
        /\ dmsRet' = wrap360(x)
        /\ UNCHANGED <<dmsFormat, dmsDp, dmsText>>
        /\ UNCHANGED otherThanDms

CallToLat ==
    \E x \in FormatInputs, f \in DmsFormats, p \in DmsDps :
        /\ dmsFn = "none"
        /\ dmsDeg' = x
        /\ dmsFormat' = f
        /\ dmsDp' = p
        /\ dmsFn' = "toLat"
        /\ dmsText' = toLat(x, f, p)
        /\ UNCHANGED dmsRet
        /\ UNCHANGED otherThanDms

CallToLon ==
    \E x \in FormatInputs, f \in DmsFormats, p \in DmsDps :
        /\ dmsFn = "none"
        /\ dmsDeg' = x
        /\ dmsFormat' = f
        /\ dmsDp' = p
        /\ dmsFn' = "toLon"
        /\ dmsText' = toLon(x, f, p)
        /\ UNCHANGED dmsRet
        /\ UNCHANGED otherThanDms

\* the caller takes the result; the functions keep no state between calls
DmsReturn ==
    /\ dmsFn # "none"
    /\ dmsDeg' = Num(0)
    /\ dmsFormat' = "d"
    /\ dmsDp' = DpUndefined
    /\ dmsFn' = "none"
    /\ dmsRet' = Num(0)
    /\ dmsText' = <<>>
    /\ UNCHANGED otherThanDms



---------------------------------------------------------------------------
(* Claims about the Dms functions *)

\* the triangle wave of amplitude 90 and period 360, the sawtooth onto
\* [-180, 180] and the modulo onto [0, 360), as functions of a count of units
RefTriangle90(x) ==
    LET m == (x + Deg(90)) % Deg(360)
    IN  IF m <= Deg(180) THEN m - Deg(90) ELSE Deg(270) - m

RefSawtooth180(x) ==
    IF -Deg(180) <= x /\ x <= Deg(180) THEN x ELSE ((x + Deg(180)) % Deg(360)) - Deg(180)

RefModulo360(x) == x % Deg(360)

\* C7: on every finite degree value the wrap functions equal their reference
\* folding: the identity on [-90, 90], [-180, 180] and [0, 360); beyond,
\* wrap90(90 + d) = 90 - d and wrap90(-90 - d) = -90 + d for 0 <= d <= 180,
\* wrap180(180 + d) = -180 + d for 0 < d < 360, wrap360(x) = x mod 360; and
\* every result lies in the function's range.
Thm_C7_WrapFolding ==
    LET x == dmsDeg.v
        r == dmsRet
    IN  /\ dmsFn = "wrap90" =>
            /\ r = Num(RefTriangle90(x))
            /\ -Deg(90) <= r.v /\ r.v <= Deg(90)
            /\ (-Deg(90) <= x /\ x <= Deg(90)) => r.v = x
            /\ (Deg(90) <= x /\ x <= Deg(270)) => r.v = Deg(90) - (x - Deg(90))
            /\ (-Deg(270) <= x /\ x <= -Deg(90)) => r.v = -Deg(90) + (-Deg(90) - x)
        /\ dmsFn = "wrap180" =>
            /\ r = Num(RefSawtooth180(x))
            /\ -Deg(180) <= r.v /\ r.v <= Deg(180)
            /\ (-Deg(180) <= x /\ x <= Deg(180)) => r.v = x
            /\ (Deg(180) < x /\ x < Deg(540)) => r.v = -Deg(180) + (x - Deg(180))
        /\ dmsFn = "wrap360" =>
            /\ r = Num(RefModulo360(x))
            /\ 0 <= r.v /\ r.v < Deg(360)
            /\ (0 <= x /\ x < Deg(360)) => r.v = x

\* wrap90 has folded -91 degrees to -89, wrap180 would fold 181 to -179
Wit_C7_FoldedBelowMinus90 ==
    /\ dmsFn = "wrap90"
    /\ dmsDeg = Num(Deg(-91))
    /\ dmsRet = Num(Deg(-89))

\* C8: wrap360 has period 360: the value returned for x is the value of
\* wrap360 at x + 360 k for every whole number of turns k, either sign.
Thm_C8_Wrap360Periodic ==
    dmsFn = "wrap360" =>
        \A k \in -MaxTurns..MaxTurns : wrap360(JsAdd(dmsDeg, k * Deg(360))) = dmsRet

\* wrap360 has been called below zero, where the remainder is negative
Wit_C8_NegativeBearing ==
    /\ dmsFn = "wrap360"
    /\ dmsDeg = Num(Deg(-370) + 1)
    /\ dmsRet = Num(Deg(350) + 1)

\* C9: toLat prints the magnitude of wrap90(deg) followed by N when
\* wrap90(deg) >= 0 and S when it is negative, and toLon the magnitude of
\* wrap180(deg) followed by E or W by the sign of wrap180(deg): the letter
\* always agrees with the sign of the wrapped value that is printed.
Claim_C9_HemisphereOfWrapped ==
    /\ dmsFn = "toLat" =>
            dmsText = Tail(toDms(JsAbs(wrap90(dmsDeg)), dmsFormat, dmsDp))
                        \o <<DmsSeparator>>
                        \o <<IF JsLt(wrap90(dmsDeg), Num(0)) THEN "S" ELSE "N">>
    /\ dmsFn = "toLon" =>
            dmsText = toDms(JsAbs(wrap180(dmsDeg)), dmsFormat, dmsDp)
                        \o <<DmsSeparator>>
                        \o <<IF JsLt(wrap180(dmsDeg), Num(0)) THEN "W" ELSE "E">>

---------------------------------------------------------------------------
(* Dms.parse on numbers and on composed text *)

\* a numeric part as it is written, and its value in arc-seconds
Part(text, units) == [text |-> text, units |-> units]

PartDegrees == {Part(<<"5", "2">>, Deg(52)), Part(<<"0", "0", "3", ".", "5">>, Deg(3) + 1800)}
PartMinutes == {Part(<<"3", "0">>, 1800), Part(<<"0", "7", ".", "5">>, 450)}
PartSeconds == {Part(<<"3", "6">>, 36)}
PartBeyond == {Part(<<"9">>, 9)}

\* the numeric parts of a text: none, or one to four
PartLists ==
    {<<>>}
    \cup {<<d>> : d \in PartDegrees}
    \cup {<<d, m>> : d \in PartDegrees, m \in PartMinutes}
    \cup {<<d, m, s>> : d \in PartDegrees, m \in PartMinutes, s \in PartSeconds}
    \cup {<<d, m, s, x>> : d \in PartDegrees, m \in PartMinutes, s \in PartSeconds,
                           x \in PartBeyond}

\* what stands between and after the parts, the sign and the compass letter
PartSeparators == {<<" ">>, <<DegreeSign, " ">>}
PartSigns == {<<>>, <<"-">>}
PartCompass == {<<>>, <<"N">>, <<"S">>, <<"E">>, <<"W">>, <<"s">>, <<"w">>, <<" ", "S">>,
                <<DegreeSign, "W">>, <<PrimeSign, " ", "N">>}

\* a text: blanks, sign, parts with a separator between them, compass letter
Composed == [blank : BOOLEAN, sign : PartSigns, parts : PartLists, sep : PartSeparators,
             compass : PartCompass]

RECURSIVE JoinParts(_, _)
JoinParts(parts, sep) ==
    IF parts = <<>> THEN <<>>
    ELSE IF Len(parts) = 1 THEN parts[1].text
    ELSE parts[1].text \o sep \o JoinParts(Tail(parts), sep)

TextOf(c) ==
    (IF c.blank THEN <<" ">> ELSE <<>>) \o c.sign \o JoinParts(c.parts, c.sep) \o c.compass
        \o (IF c.blank THEN <<" ">> ELSE <<>>)

\* values without a numeric part
NoNumber ==
    {Str(<<>>), Str(<<" ">>), Str(<<"a", "b", "c">>), Str(<<"N">>), Str(<<"-">>),
     Str(<<DegreeSign>>), Null, Undefined, NaN, PosInf, NegInf, Bool(TRUE)}

\* finite numbers
ParseNumbers == {Num(Deg(d) + f) : d \in {-181, -52, 0, 52, 200}, f \in DegreeFractions}

CallParse ==
    \E x \in ParseNumbers \cup NoNumber \cup {Str(TextOf(c)) : c \in Composed} :
        /\ dmsFn = "none"
        /\ dmsDeg' = x
        /\ dmsFn' = "parse"
        /\ dmsRet' = parse(x)
        /\ UNCHANGED <<dmsFormat, dmsDp, dmsText>>
        /\ UNCHANGED otherThanDms

\* d, d + m/60, d + m/60 + s/3600 in arc-seconds
RECURSIVE SumOfParts(_)
SumOfParts(parts) == IF parts = <<>> THEN 0 ELSE parts[1].units + SumOfParts(Tail(parts))

\* a leading '-', or a trailing S or W
IsNegated(c) ==
    c.sign = <<"-">> \/ (c.compass # <<>> /\ c.compass[Len(c.compass)] \in {"S", "W", "s", "w"})

Expected(c) ==
    IF Len(c.parts) \in 1..3
    THEN Num(IF IsNegated(c) THEN -SumOfParts(c.parts) ELSE SumOfParts(c.parts))
    ELSE NaN

\* C15: Dms.parse returns a finite number as it is; for text that, without
\* its leading '-' and trailing N, S, E or W (either case), splits into 1, 2
\* or 3 numeric parts, d, d + m/60 or d + m/60 + s/3600, negated once where
\* the text has a leading '-' or a trailing S or W or both; and NaN for more
\* than 3 parts and where there is no numeric part.
Thm_C15_ParseDegreesMinutesSeconds ==
    dmsFn = "parse" =>
        /\ dmsDeg \in ParseNumbers => dmsRet = dmsDeg
        /\ dmsDeg \in NoNumber => dmsRet = NaN
        /\ \A c \in Composed : dmsDeg = Str(TextOf(c)) => dmsRet = Expected(c)

\* C15 witness: '-52 30 36 S' has been read as -52.51 degrees, negated once
Wit_C15_SignAndSouth ==
    /\ dmsFn = "parse"
    /\ dmsDeg = Str(<<"-", "5", "2", " ", "3", "0", " ", "3", "6", " ", "S">>)
    /\ dmsRet = Num(-(Deg(52) + 1800 + 36))

---------------------------------------------------------------------------
(* Dms.compassPoint on bearings around the compass *)

\* the sixteenth of a turn and its half, in units
CompassStep == Deg(45) \div 2
HalfCompassStep == Deg(45) \div 4

\* bearings at every point and half way between points, and an arc-second
\* either side, over more than a turn below zero and above 360
MaxHalfSteps == 72
CompassBearings ==
    {Num(k * HalfCompassStep + f) : k \in -MaxHalfSteps..MaxHalfSteps, f \in {-1, 0, 1}}
    \cup {Num(Deg(24)), NaN, PosInf}

\* precisions: none, 1, 2, 3 as numbers, as text and as true; and others
ValidPrecisions ==
    {Undefined, Num(1 * PrecisionScale), Num(2 * PrecisionScale), Num(3 * PrecisionScale),
     Str(<<"2">>), Bool(TRUE)}
InvalidPrecisions ==
    {Num(0), Num(3), Num(4 * PrecisionScale), Num(-1 * PrecisionScale), NaN, PosInf, Null,
     Str(<<"a", "b", "c">>), Str(<<>>), Bool(FALSE)}

\* one call at a time
CallCompassPoint ==
    \E bearing \in CompassBearings, precision \in ValidPrecisions \cup InvalidPrecisions :
        /\ dmsFn = "none"
        /\ gridCall.fn = "none"
        /\ dmsDeg' = bearing
        /\ dmsDp' = precision
        /\ dmsFn' = "compassPoint"
        /\ dmsRet' = compassPoint(bearing, precision)
        /\ UNCHANGED <<dmsFormat, dmsText>>
        /\ UNCHANGED otherThanDms

\* the bearing of each compass point, in units
BearingOfPoint ==
    [N |-> 0 * CompassStep, NNE |-> 1 * CompassStep, NE |-> 2 * CompassStep,
     ENE |-> 3 * CompassStep, E |-> 4 * CompassStep, ESE |-> 5 * CompassStep,
     SE |-> 6 * CompassStep, SSE |-> 7 * CompassStep, S |-> 8 * CompassStep,
     SSW |-> 9 * CompassStep, SW |-> 10 * CompassStep, WSW |-> 11 * CompassStep,
     W |-> 12 * CompassStep, WNW |-> 13 * CompassStep, NW |-> 14 * CompassStep,
     NNW |-> 15 * CompassStep]

\* the compass points of each precision
PointsOfPrecision ==
    <<{"N", "E", "S", "W"},
      {"N", "NE", "E", "SE", "S", "SW", "W", "NW"},
      DOMAIN BearingOfPoint>>

\* the precision asked for: 1, 2 or 3
AskedPrecision ==
    CASE dmsDp \in {Undefined, Num(3 * PrecisionScale)} -> 3
      [] dmsDp \in {Num(2 * PrecisionScale), Str(<<"2">>)} -> 2
      [] OTHER -> 1

\* the angle between two bearings of [0, 360), the short way round
Apart(a, b) ==
    IF a >= b THEN (IF a - b <= Deg(180) THEN a - b ELSE Deg(360) - (a - b))
    ELSE (IF b - a <= Deg(180) THEN b - a ELSE Deg(360) - (b - a))

\* C16: with precision 1, 2 or 3 compassPoint returns, of the 4, 8 or 16
\* compass points of that precision, one that is nearest to wrap360(bearing):
\* no point of the precision is nearer, a bearing less than half a step below
\* 360 gives N, and no point outside the precision's set is returned;
\* compassPoint(24) is 'NNE' and compassPoint(24, 1) is 'N'.
Thm_C16_NearestCompassPoint ==
    dmsFn = "compassPoint" /\ dmsDp \in ValidPrecisions /\ dmsDeg.k = "num" =>
        /\ dmsRet.err = "none"
        /\ dmsRet.val.k = "str"
        /\ dmsRet.val.s[1] \in PointsOfPrecision[AskedPrecision]
        /\ \A q \in PointsOfPrecision[AskedPrecision] :
                Apart(RefModulo360(dmsDeg.v), BearingOfPoint[dmsRet.val.s[1]])
                    <= Apart(RefModulo360(dmsDeg.v), BearingOfPoint[q])
        /\ 2 * Apart(RefModulo360(dmsDeg.v), BearingOfPoint[dmsRet.val.s[1]]) * Pow2(AskedPrecision)
                <= Deg(180)
        /\ dmsDeg = Num(Deg(24)) /\ dmsDp = Undefined => dmsRet.val = Str(<<"NNE">>)
        /\ dmsDeg = Num(Deg(24)) /\ dmsDp = Num(1 * PrecisionScale) => dmsRet.val = Str(<<"N">>)

\* C16 witness: a bearing an arc-second short of half a step below 360 has
\* been given N at precision 2
Wit_C16_JustBelowNorth ==
    /\ dmsFn = "compassPoint"
    /\ dmsDeg = Num(Deg(360) - CompassStep + 1)
    /\ dmsDp = Num(2 * PrecisionScale)
    /\ dmsRet = Return(Str(<<"N">>))

---------------------------------------------------------------------------
(* The formatting functions on values that are no angle *)

\* degrees handed to the formatting functions: angles, and NaN, booleans,
\* the infinities, null, undefined and blank text
AnyDegrees ==
    {Num(Deg(d) + f) : d \in {-181, -90, -45, 0, 24, 100, 359, 360}, f \in DegreeFractions}
    \cup {NaN, Bool(TRUE), Bool(FALSE), PosInf, NegInf, Null, Undefined, Str(<<" ">>)}

CallToDms ==
    \E x \in AnyDegrees, f \in DmsFormats, p \in DmsDps :
        /\ dmsFn = "none"
        /\ dmsDeg' = x
        /\ dmsFormat' = f
        /\ dmsDp' = p
        /\ dmsFn' = "toDms"
        /\ dmsText' = toDms(x, f, p)
        /\ UNCHANGED dmsRet
        /\ UNCHANGED otherThanDms

CallToLatOfAny ==
    \E x \in AnyDegrees, f \in DmsFormats, p \in DmsDps :
        /\ dmsFn = "none"
        /\ dmsDeg' = x
        /\ dmsFormat' = f
        /\ dmsDp' = p
        /\ dmsFn' = "toLat"
        /\ dmsText' = toLat(x, f, p)
        /\ UNCHANGED dmsRet
        /\ UNCHANGED otherThanDms

CallToLonOfAny ==
    \E x \in AnyDegrees, f \in DmsFormats, p \in DmsDps :
        /\ dmsFn = "none"
        /\ dmsDeg' = x
        /\ dmsFormat' = f
        /\ dmsDp' = p
        /\ dmsFn' = "toLon"
        /\ dmsText' = toLon(x, f, p)
        /\ UNCHANGED dmsRet
        /\ UNCHANGED otherThanDms

CallToBrng ==
    \E x \in AnyDegrees, f \in DmsFormats, p \in DmsDps :
        /\ dmsFn = "none"
        /\ dmsDeg' = x
        /\ dmsFormat' = f
        /\ dmsDp' = p
        /\ dmsFn' = "toBrng"
        /\ dmsText' = toBrng(x, f, p)
        /\ UNCHANGED dmsRet
        /\ UNCHANGED otherThanDms

\* NaN, a boolean, an infinity of either sign, or null
IsNoAngle(x) == x.k \in {"nan", "bool", "inf", "null"}

\* C18: for NaN, a boolean, +Infinity, -Infinity and null, toDms returns its
\* 'unknown' sentinel (null) and no formatted text, toLat, toLon and toBrng
\* return the unknown marker, and no digit is printed.
Claim_C18_UnknownForNoAngle ==
    IsNoAngle(dmsDeg) =>
        /\ dmsFn = "toDms" => dmsText = DmsNull
        /\ dmsFn \in {"toLat", "toLon", "toBrng"} => dmsText = UnknownMark
        /\ dmsFn \in {"toDms", "toLat", "toLon", "toBrng"} =>
                \A i \in 1..Len(dmsText) : ~IsDigit(dmsText[i])

---------------------------------------------------------------------------
(* Dms.toBrng on bearings *)

\* bearings: whole degrees around the turn and outside it, each also 0.36 of
\* a degree, half a degree and 59.5 minutes further on
BearingFractions == {0, (36 * Scale) \div 100, Scale \div 2, (595 * Scale) \div 600}
Bearings == {Num(Deg(d) + f) : d \in {-1, 0, 12, 136, 359, 360, 719}, f \in BearingFractions}

CallToBrngOfBearing ==
    \E x \in Bearings, f \in DmsFormats, p \in DmsDps :
        /\ dmsFn = "none"
        /\ dmsDeg' = x
        /\ dmsFormat' = f
        /\ dmsDp' = p
        /\ dmsFn' = "toBrng"
        /\ dmsText' = toBrng(x, f, p)
        /\ UNCHANGED dmsRet
        /\ UNCHANGED otherThanDms

\* the text starts with the degrees 360
RoundedUpTo360(t) == Len(t) >= 3 /\ SubSeq(t, 1, 3) = <<"3", "6", "0">>

\* every digit of the text is a zero
ShownAsZero(t) == \A i \in DOMAIN t : IsDigit(t[i]) => t[i] = "0"

\* C27: for every bearing toBrng(deg, format, dp) is the text toDms gives for
\* wrap360(deg), except that a text whose degrees were rounded up to 360 is
\* shown as zero; the digits of every other bearing are left unaltered.
Claim_C27_BearingTextUnaltered ==
    (dmsFn = "toBrng" /\ dmsDeg \in Bearings) =>
        IF RoundedUpTo360(toDms(wrap360(dmsDeg), dmsFormat, dmsDp))
        THEN ShownAsZero(dmsText)
        ELSE dmsText = toDms(wrap360(dmsDeg), dmsFormat, dmsDp)

---------------------------------------------------------------------------
(* Calls on a LatLon point *)

\* the values handed over as latitude or longitude: numbers in and out of
\* range, NaN, the infinities, null, and numeric, sexagesimal and other text
PointArgs ==
    {Num(Deg(-200)), Num(Deg(-91)), Num(0), Num(Deg(45) + 1), Num(Deg(90)), Num(Deg(181)),
     NaN, PosInf, NegInf, Null,
     Str(<<"9", "1">>), Str(<<"4", "5", " ", "3", "0", " ", "S">>),
     Str(<<"a", "b", "c">>), Str(<<>>)}

HeightArgs == {Undefined, Num(17), NaN, PosInf}

PointClasses == {"LatLonEllipsoidal", "LatLonEllipsoidal_Datum", "LatLon_OsGridRef"}

PointDatumArgs == {DatumUndefined, "OSGB36", DatumNull, DatumNoEllipsoid}

IdlePoint ==
    /\ llPoint = NoObject
    /\ thrown = "none"

\* new LatLon(...): a throwing constructor yields no object
ConstructLatLonEllipsoidal ==
    /\ llPoint = NoObject
    /\ \E lat \in PointArgs, lon \in PointArgs, h \in HeightArgs :
            LET r == LatLonEllipsoidal(lat, lon, h)
            IN  thrown' = r.err /\ llPoint' = r.val
    /\ UNCHANGED otherThanPoint

ConstructLatLonEllipsoidal_Datum ==
    /\ llPoint = NoObject
    /\ \E cls \in PointClasses \ {"LatLonEllipsoidal"}, lat \in PointArgs, lon \in PointArgs,
          h \in HeightArgs, datum \in PointDatumArgs :
            LET r == LatLonEllipsoidal_Datum(cls, lat, lon, h, datum)
            IN  thrown' = r.err /\ llPoint' = r.val
    /\ UNCHANGED otherThanPoint

SetLat ==
    /\ llPoint # NoObject
    /\ \E lat \in PointArgs :
            LET r == SetLatOutcome(llPoint, lat)
            IN  thrown' = r.err /\ llPoint' = r.val
    /\ UNCHANGED otherThanPoint

SetLatitude ==
    /\ llPoint # NoObject
    /\ \E lat \in PointArgs :
            LET r == SetLatOutcome(llPoint, lat)
            IN  thrown' = r.err /\ llPoint' = r.val
    /\ UNCHANGED otherThanPoint

SetLon ==
    /\ llPoint # NoObject
    /\ \E lon \in PointArgs :
            LET r == SetLonOutcome(llPoint, lon)
            IN  thrown' = r.err /\ llPoint' = r.val
    /\ UNCHANGED otherThanPoint

SetLng ==
    /\ llPoint # NoObject
    /\ \E lon \in PointArgs :
            LET r == SetLonOutcome(llPoint, lon)
            IN  thrown' = r.err /\ llPoint' = r.val
    /\ UNCHANGED otherThanPoint

SetLongitude ==
    /\ llPoint # NoObject
    /\ \E lon \in PointArgs :
            LET r == SetLonOutcome(llPoint, lon)
            IN  thrown' = r.err /\ llPoint' = r.val
    /\ UNCHANGED otherThanPoint

SetHeight ==
    /\ llPoint # NoObject
    /\ \E h \in HeightArgs \ {Undefined} :
            LET r == SetHeightOutcome(llPoint, h)
            IN  thrown' = r.err /\ llPoint' = r.val
    /\ UNCHANGED otherThanPoint

---------------------------------------------------------------------------
(* Claims about the stored angles *)

\* C1: after any sequence of construction and assignments to lat, latitude,
\* lon, lng, longitude - non-finite input and assignments that raise an
\* error included - the stored latitude is a number in [-90, 90] and the
\* stored longitude a number in [-180, 180].
Claim_C1_StoredAnglesInRange ==
    llPoint # NoObject =>
        /\ IsFiniteNum(llPoint._lat)
        /\ -Deg(90) <= llPoint._lat.v /\ llPoint._lat.v <= Deg(90)
        /\ IsFiniteNum(llPoint._lon)
        /\ -Deg(180) <= llPoint._lon.v /\ llPoint._lon.v <= Deg(180)

---------------------------------------------------------------------------
(* Calls of OsGridRef and toOsGrid *)

\* the values handed to the constructor as easting or northing
GridArgs ==
    {Num(0), Num(-1), Num(Metres(651409)), Num(Metres(313177)),
     Num(Metres(MaxEasting)), Num(Metres(MaxEasting) + 1),
     Num(Metres(MaxNorthing)), Num(Metres(MaxNorthing) + 1),
     NaN, PosInf, NegInf, Null, Undefined,
     Str(<<"a", "b", "c">>), Str(<<"4", "3", "8", "7", "0", "0">>), Str(<<>>)}

\* the texts handed to parse: letters, blanks and digit groups
FirstLetters == {"H", "N", "S", "T", "t", "A"}
SecondLetters == {UpperCaseLetters[i] : i \in 1..Len(UpperCaseLetters)} \cup {"g"}
Blanks == {<<>>, <<" ">>}
DigitGroups ==
    {<<"5">>, <<"0", "0">>, <<"5", "1", "4">>, <<"5", "1", "4", "0", "9">>,
     <<"1", "3", "1", "7", "7">>, <<"9", "9", "9", "9", "9">>}
MetreGroups ==
    {<<"0">>, <<"6", "5", "1", "4", "0", "9">>, <<"3", "1", "3", "1", "7", "7">>,
     <<"0", "7", "0", "0", "0", "0", "0">>, <<"7", "0", "0", "0", "0", "1">>,
     <<"1", "3", "0", "0", "0", "0", "0">>, <<"1", "3", "0", "0", "0", "0", "1">>}
OtherRefs ==
    {Null, Undefined, Str(<<>>), Str(<<"T", "G">>), Str(<<"T", "G", "5">>),
     Str(<<"T", "G", " ", "5", " ", "1", " ", "4">>), Str(<<"5", "1", ",">>),
     Str(<<"T", "G", " ", "5", ".", "1", " ", "4">>), Str(<<" ", "S", "V", "0", "0", " ">>)}

\* texts that are no grid reference: nothing, letters only, one digit, three
\* digit groups, a letter too few or too many, a sign, a decimal point, a
\* blank before the comma, a trailing letter, digits only
MalformedRefs ==
    {Null, Undefined, NaN, Num(Metres(651409)), Str(<<>>), Str(<<" ">>), Str(<<"T", "G">>),
     Str(<<"T", "G", "5">>), Str(<<"T", "G", " ", "5", " ", "1", " ", "4">>),
     Str(<<"5", "1", ",">>), Str(<<",", "5">>), Str(<<"T", "G", " ", "5", ".", "1", " ", "4">>),
     Str(<<"T", " ", "5", " ", "5">>), Str(<<"T", "G", "G", " ", "5", " ", "5">>),
     Str(<<"5", " ", "5">>), Str(<<"5", "1", " ", ",", "4">>), Str(<<"-", "5", ",", "4">>),
     Str(<<"T", "G", " ", "5", " ", "5", "N">>), Str(<<"T", " ", "G", "5", "5">>),
     Str(<<"5", ",", "4", ",", "3">>)}

\* the points toOsGrid is called on
GridLatArgs == {Num(Deg(52) + 2369), Num(Deg(49)), Num(Deg(90)), Num(Deg(-91)), PosInf}
GridLonArgs == {Num(Deg(1) + 2578), Num(Deg(-2)), Num(Deg(180)), NegInf}
GridDatumArgs == {DatumUndefined, "OSGB36", "ED50"}
GridPoints ==
    {LatLonEllipsoidal_Datum("LatLon_OsGridRef", lat, lon, Undefined, d).val :
        lat \in GridLatArgs, lon \in GridLonArgs, d \in GridDatumArgs}

\* what a conversion of datum arrives at: some latitude, longitude and height
Geodetic ==
    {[lat |-> Num(lat), lon |-> Num(lon), height |-> Num(height)] :
        lat \in {Deg(52) + 2374, Deg(-90)}, lon \in {Deg(1) + 2583, Deg(180)},
        height \in {0, 46}}

\* the values of the series for a point: inside the grid, at and over its
\* edges, none, and none for a point without latitude or longitude
Projected(r, max) ==
    IF r.err # "none" THEN {NaN}
    ELSE IF IsNaNNum(r.heap[r.ret.id]._lat) \/ IsNaNNum(r.heap[r.ret.id]._lon) THEN {NaN}
    ELSE {Raw(0, 0), Raw(-1, 4), Raw(-1, 6), Raw(Metres(313177), 2),
          Raw(Metres(max) - 1, 5), Raw(Metres(max), 4), Raw(Metres(max), 5),
          NaN, PosInf}

IdleGrid ==
    /\ gridCall = [fn |-> "none"]
    /\ grid = NoObject
    /\ gridErr = "none"
    /\ gridMessage = NoMessage

CallOsGridRef ==
    /\ gridCall.fn = "none"
    /\ \E easting \in GridArgs, northing \in GridArgs :
            /\ gridCall' = [fn |-> "OsGridRef", easting |-> easting, northing |-> northing]
            /\ grid' = OsGridRef(easting, northing).val
            /\ gridErr' = OsGridRef(easting, northing).err
    /\ gridMessage' = NoMessage
    /\ UNCHANGED otherThanGrid

CallParseStandard ==
    /\ gridCall.fn = "none"
    /\ \E l1 \in FirstLetters, l2 \in SecondLetters, b1 \in Blanks, b2 \in Blanks,
          eDigits \in DigitGroups, nDigits \in DigitGroups :
            /\ gridCall' = [fn |-> "parse", form |-> "standard",
                            text |-> <<l1, l2>> \o b1 \o eDigits \o b2 \o nDigits,
                            l1 |-> l1, l2 |-> l2, eDigits |-> eDigits, nDigits |-> nDigits,
                            separated |-> b2 # <<>>]
            /\ grid' = OsGridRef_parse(Str(gridCall'.text)).val
            /\ gridErr' = OsGridRef_parse(Str(gridCall'.text)).err
    /\ gridMessage' = NoMessage
    /\ UNCHANGED otherThanGrid

CallParseNumeric ==
    /\ gridCall.fn = "none"
    /\ \E eDigits \in MetreGroups, nDigits \in MetreGroups, b \in Blanks :
            /\ gridCall' = [fn |-> "parse", form |-> "numeric",
                            text |-> eDigits \o <<",">> \o b \o nDigits,
                            eDigits |-> eDigits, nDigits |-> nDigits]
            /\ grid' = OsGridRef_parse(Str(gridCall'.text)).val
            /\ gridErr' = OsGridRef_parse(Str(gridCall'.text)).err
    /\ gridMessage' = NoMessage
    /\ UNCHANGED otherThanGrid

CallParseOther ==
    /\ gridCall.fn = "none"
    /\ \E gridref \in OtherRefs :
            /\ gridCall' = [fn |-> "parse", form |-> "other", gridref |-> gridref]
            /\ grid' = OsGridRef_parse(gridref).val
            /\ gridErr' = OsGridRef_parse(gridref).err
    /\ gridMessage' = NoMessage
    /\ UNCHANGED otherThanGrid

CallParseMalformed ==
    /\ gridCall.fn = "none"
    /\ \E gridref \in MalformedRefs :
            /\ gridCall' = [fn |-> "parse", form |-> "malformed", gridref |-> gridref]
            /\ grid' = OsGridRef_parse(gridref).val
            /\ gridErr' = OsGridRef_parse(gridref).err
    /\ gridMessage' = NoMessage
    /\ UNCHANGED otherThanGrid

CallToOsGrid ==
    /\ gridCall.fn = "none"
    /\ \E this \in GridPoints, geo \in Geodetic :
        \E E \in Projected(PointToProject(<<this>>, 1, geo), MaxEasting),
           N \in Projected(PointToProject(<<this>>, 1, geo), MaxNorthing) :
            /\ gridCall' = [fn |-> "toOsGrid", this |-> this, geo |-> geo, E |-> E, N |-> N]
            /\ grid' = IF LatLon_OsGridRef_toOsGrid(<<this>>, 1, geo, E, N).err = "none"
                       THEN Last(LatLon_OsGridRef_toOsGrid(<<this>>, 1, geo, E, N).heap)
                       ELSE NoObject
            /\ gridErr' = LatLon_OsGridRef_toOsGrid(<<this>>, 1, geo, E, N).err
            /\ gridMessage' = ToOsGridMessage(<<this>>, 1, geo, E, N)
    /\ UNCHANGED otherThanGrid

GridReturn ==
    /\ gridCall.fn # "none"
    /\ gridCall' = [fn |-> "none"]
    /\ grid' = NoObject
    /\ gridErr' = "none"
    /\ gridMessage' = NoMessage
    /\ UNCHANGED otherThanGrid

---------------------------------------------------------------------------
(* Claims about grid references *)

\* a number of metres outside [0, max], or no number at all
OutsideGrid(x, max) == ~IsFiniteNum(x) \/ x.v < 0 \/ x.v > Metres(max)

InsideGrid(g) ==
    /\ ~OutsideGrid(g.easting, MaxEasting)
    /\ ~OutsideGrid(g.northing, MaxNorthing)

\* the text denotes no number (undefined, NaN, text that is not a numeral)
NonNumeric(x) == x.k \in {"undefined", "nan"} \/ (x.k = "str" /\ ~IsFinite(x, GridScale))

\* the latitude and longitude a failing toOsGrid reports: the receiver's on
\* OSGB36, otherwise those its conversion to OSGB36 arrived at
Offending(call) ==
    IF call.this._datum = "OSGB36" THEN call.this
    ELSE [_lat |-> call.geo.lat, _lon |-> call.geo.lon]

SquareLetters == SelectSeq(UpperCaseLetters, LAMBDA c : c # "I")
SquareLettersLower == SelectSeq(LowerCaseLetters, LAMBDA c : c # "i")
SquareIndex(c) ==
    (CHOOSE i \in 1..Len(SquareLetters) : c = SquareLetters[i] \/ c = SquareLettersLower[i]) - 1

\* letters run west to east, then north to south, in blocks of 5 by 5; the
\* false origin is the south-west corner of square SV
Column(c) == SquareIndex(c) % 5
RowFromNorth(c) == SquareIndex(c) \div 5
RefE100km(l1, l2) ==
    5 * (Column(l1) - Column("S")) + (Column(l2) - Column("V"))
RefN100km(l1, l2) ==
    5 * (RowFromNorth("S") - RowFromNorth(l1)) + (RowFromNorth("V") - RowFromNorth(l2))

RefEasting(call) ==
    RefE100km(call.l1, call.l2) * SquareMetres
        + DigitsVal(call.eDigits) * Pow10(RefDigits - Len(call.eDigits))
RefNorthing(call) ==
    RefN100km(call.l1, call.l2) * SquareMetres
        + DigitsVal(call.nDigits) * Pow10(RefDigits - Len(call.nDigits))

\* the result of parse is the grid reference of these metres if they lie on
\* the grid, and a RangeError if they do not
ParsedAs(easting, northing) ==
    IF easting <= MaxEasting /\ northing <= MaxNorthing
    THEN /\ gridErr = "none"
         /\ grid = [cls |-> "OsGridRef", easting |-> Num(Metres(easting)),
                    northing |-> Num(Metres(northing))]
    ELSE gridErr = "RangeError" /\ grid = NoObject

\* C10: parse of two letters (first H, N, S or T, second not I) and k digits
\* each of easting and northing, 1 <= k <= 5, separated by blanks or not,
\* returns easting = e100km*100000 + E*10^(5-k) and northing =
\* n100km*100000 + N*10^(5-k) with the indices counted from square SV (a
\* RangeError if that is off the grid); parse of 'easting,northing' returns
\* those two numbers.
Thm_C10_ParseDecodesReference ==
    /\ (/\ gridCall.fn = "parse" /\ gridCall.form = "standard"
        /\ gridCall.l1 \in {"H", "N", "S", "T", "t"}
        /\ gridCall.l2 # "I"
        /\ Len(gridCall.eDigits) = Len(gridCall.nDigits)
        /\ Len(gridCall.eDigits) \in 1..RefDigits)
            => ParsedAs(RefEasting(gridCall), RefNorthing(gridCall))
    /\ (gridCall.fn = "parse" /\ gridCall.form = "numeric")
            => ParsedAs(DigitsVal(gridCall.eDigits), DigitsVal(gridCall.nDigits))

\* C10 witness: 'TG 51409 13177' has been parsed to 651409, 313177
Wit_C10_TG5140913177 ==
    /\ gridCall.fn = "parse" /\ gridCall.form = "standard"
    /\ gridCall.text = <<"T", "G", " ", "5", "1", "4", "0", "9", " ", "1", "3", "1", "7", "7">>
    /\ grid # NoObject
    /\ grid.easting = Num(Metres(651409))
    /\ grid.northing = Num(Metres(313177))

\* the call threw an Error and returned nothing
Rejected == gridErr = "Error" /\ grid = NoObject

\* the two letters of a reference are not a square of the grid
NoSquare(l1, l2) ==
    \/ l1 \notin {"H", "N", "S", "T", "h", "n", "s", "t"}
    \/ l2 \in {"I", "i"}

\* C11: parse throws an Error and returns no grid reference for every text
\* that is neither a numeric pair nor two square letters followed by digits,
\* and for every reference whose easting and northing have different numbers
\* of digits, an unseparated run of an odd number of digits included.
Thm_C11_MalformedReferenceRejected ==
    /\ gridCall.fn = "parse" /\ gridCall.form = "malformed" => Rejected
    /\ gridCall.fn = "parse" /\ gridCall.form = "standard" =>
            /\ NoSquare(gridCall.l1, gridCall.l2) => Rejected
            /\ gridCall.separated /\ Len(gridCall.eDigits) # Len(gridCall.nDigits) => Rejected
            /\ ~gridCall.separated /\ (Len(gridCall.eDigits) + Len(gridCall.nDigits)) % 2 = 1
                    => Rejected

\* C11 witness: 'TG 514 00' has been refused
Wit_C11_UnequalDigitGroups ==
    /\ gridCall.fn = "parse" /\ gridCall.form = "standard"
    /\ gridCall.text = <<"T", "G", " ", "5", "1", "4", " ", "0", "0">>
    /\ gridErr = "Error"
    /\ grid = NoObject

---------------------------------------------------------------------------
(* OsGridRef.toString with any number of digits *)

\* the grid references toString is called on
TextRefs ==
    {OsGridRef(Num(Metres(e) + f), Num(Metres(n) + f)).val :
        e \in {0, 651409, MaxEasting - 1}, n \in {0, 313177, MaxNorthing - 1}, f \in {0, 500}}
    \cup {OsGridRef(Num(Metres(MaxEasting)), Num(Metres(MaxNorthing))).val}

\* digits: none, the nine numbers as numbers, one as text; and others
ValidDigits ==
    {Undefined, Str(<<"4">>)} \cup {Num(d * DigitsScale) : d \in GridDigits}
InvalidDigits ==
    {Num(d * DigitsScale) : d \in {-2, 1, 3, 5, 7, 9, 11, 13, 15, 17, 18}}
    \cup {Num(5), NaN, PosInf, Str(<<"a", "b", "c">>), Bool(TRUE)}

\* one call at a time
CallToString ==
    /\ gridCall.fn = "none"
    /\ dmsFn = "none"
    /\ \E this \in TextRefs, digits \in ValidDigits \cup InvalidDigits :
            /\ gridCall' = [fn |-> "toString", this |-> this, digits |-> digits]
            /\ gridErr' = toString(this, digits).err
            /\ gridMessage' = IF toString(this, digits).err = "none"
                              THEN toString(this, digits).val.s ELSE NoMessage
    /\ grid' = NoObject
    /\ UNCHANGED otherThanGrid

\* C17: compassPoint with a precision other than 1, 2 or 3, and toString
\* with a number of digits other than 0, 2, 4, ..., 16, throw a RangeError
\* and return nothing; with a precision or a number of digits of those sets
\* (or none, for the default) they throw nothing.
Thm_C17_RangeErrorOutsideTheSet ==
    /\ dmsFn = "compassPoint" /\ dmsDp \in InvalidPrecisions => dmsRet = Throw("RangeError")
    /\ dmsFn = "compassPoint" /\ dmsDp \in ValidPrecisions =>
            dmsRet.err = "none" /\ dmsRet.val # NoObject
    /\ gridCall.fn = "toString" /\ gridCall.digits \in InvalidDigits =>
            gridErr = "RangeError" /\ gridMessage = NoMessage
    /\ gridCall.fn = "toString" /\ gridCall.digits \in ValidDigits =>
            gridErr = "none" /\ gridMessage # NoMessage

\* C17 witness: toString(7) has thrown a RangeError
Wit_C17_SevenDigits ==
    /\ gridCall.fn = "toString"
    /\ gridCall.digits = Num(7 * DigitsScale)
    /\ gridErr = "RangeError"
    /\ gridMessage = NoMessage

---------------------------------------------------------------------------
(* Grid references written by toString and read back by parse *)

\* grid references of whole metres: the corners and the far ends of the
\* squares that change the first letter, and a point inside a square
WrittenRefs ==
    {OsGridRef(Num(Metres(e)), Num(Metres(n))).val :
        e \in {0, 99999, 499999, 500000, 651409, MaxEasting},
        n \in {0, 99999, 313177, 499999, 500000, 999999, 1000000, MaxNorthing}}

\* references of the square SV, where the lengths that parse makes of more
\* than ten digits stay within the integers of the model
SquareSV ==
    {OsGridRef(Num(Metres(e)), Num(Metres(n))).val : e \in {0, 21, 2000}, n \in {0, 21, 2000}}

\* the digits toString accepts: none, null, the nine numbers, one as text
AcceptedDigits == ValidDigits \cup {Null}
UpToTenDigits == {d \in AcceptedDigits : DigitsOf(d).v <= DefaultDigits * DigitsScale}

\* g.toString(digits)
WriteRef ==
    /\ gridCall.fn = "none"
    /\ \E this \in WrittenRefs \cup SquareSV, digits \in AcceptedDigits :
            /\ this \in SquareSV \/ digits \in UpToTenDigits
            /\ gridCall' = [fn |-> "toString", this |-> this, digits |-> digits]
            /\ gridErr' = toString(this, digits).err
            /\ gridMessage' = IF toString(this, digits).err = "none"
                              THEN toString(this, digits).val.s ELSE NoMessage
    /\ grid' = NoObject
    /\ UNCHANGED otherThanGrid

\* OsGridRef.parse of the text toString returned
ReadRef ==
    /\ gridCall.fn = "toString"
    /\ gridErr = "none"
    /\ gridCall' = [fn |-> "parse", form |-> "written", gridref |-> Str(gridMessage),
                    this |-> gridCall.this, digits |-> gridCall.digits]
    /\ grid' = OsGridRef_parse(Str(gridMessage)).val
    /\ gridErr' = OsGridRef_parse(Str(gridMessage)).err
    /\ gridMessage' = NoMessage
    /\ UNCHANGED otherThanGrid

\* a length in units, rounded down to a multiple of 10^(5 - d/2) metres
RoundedDown(v, d) == v - (v % Metres(Pow10(5 - (d \div 2))))

\* the reference read back is the one written, to d digits
ReadBackTo(g, d) ==
    /\ gridErr = "none"
    /\ grid.easting = Num(RoundedDown(gridCall.this.easting.v, d))
    /\ grid.northing = Num(RoundedDown(gridCall.this.northing.v, d))
    /\ Index100km(grid.easting.v) = Index100km(g.easting.v)
    /\ Index100km(grid.northing.v) = Index100km(g.northing.v)

\* C28: the text toString returns is accepted by parse: for every grid
\* reference g of whole metres within the bounds and every number of digits d
\* that toString accepts, parse(g.toString(d)) throws nothing; for d = 0 and
\* d = 10 it has the easting and northing of g, for d = 2, 4, 6, 8 those of g
\* rounded down to a multiple of 10^(5 - d/2) metres, in the 100 km square of g.
Claim_C28_ReadBackWhatWasWritten ==
    (gridCall.fn = "parse" /\ gridCall.form = "written") =>
        /\ gridErr = "none"
        /\ grid # NoObject
        /\ gridCall.digits \in {Num(0), Num(DefaultDigits * DigitsScale), Undefined} =>
                ReadBackTo(gridCall.this, DefaultDigits)
        /\ gridCall.digits \in {Num(d * DigitsScale) : d \in {2, 4, 6, 8}} =>
                ReadBackTo(gridCall.this, DigitsOf(gridCall.digits).v \div DigitsScale)

---------------------------------------------------------------------------
(* Calls of the transformations, each on a heap of its receiver and operand *)

\* vectors along an axis, and the null vector
Components == {-2, 0, 1, 2}
Vec(x, y, z) ==
    Vector3d(Num(x * VectorScale), Num(y * VectorScale), Num(z * VectorScale)).val
Vectors == {Vec(a, 0, 0) : a \in Components} \cup {Vec(0, a, 0) : a \in Components}
                \cup {Vec(0, 0, a) : a \in Components}

\* scalars handed to times and dividedBy
Scalars ==
    {Num(0), Num(VectorScale), Num(2 * VectorScale), Num(-VectorScale), NaN, PosInf, Null,
     Undefined, Str(<<"2">>), Str(<<"a", "b", "c">>)}

\* what is handed over as the other vector: nothing, a number, text
NonObjects == {Undefined, Null, Num(VectorScale), Str(<<"a", "b", "c">>)}

\* cartesian points: a position by its number, on a datum or on none
Positions == {1, 2}
Cartesians ==
    {Cartesian_Datum(Xyz(n), datum).val : n \in Positions, datum \in DatumNames \cup {DatumUndefined}}

\* geodetic points
CorePoints ==
    {LatLonEllipsoidal_Datum(cls, lat, lon, Num(46), datum).val :
        cls \in {"LatLonEllipsoidal_Datum", "LatLon_OsGridRef"},
        lat \in {Num(Deg(52) + 2369), PosInf}, lon \in {Num(Deg(1) + 2578)},
        datum \in {"WGS84", "OSGB36", "ED50"}}

\* grid references
GridRefs ==
    {OsGridRef(Num(Metres(e)), Num(Metres(n))).val : e \in {0, 651409}, n \in {313177, MaxNorthing}}

\* what the inverse series of OsGridRef.toLatLon give
OnGrid == {[lat |-> geo.lat, lon |-> geo.lon] : geo \in Geodetic}

IdleCore ==
    /\ coreCall = [fn |-> "none"]
    /\ heap0 = <<>>
    /\ heap = <<>>
    /\ coreRet = Undefined
    /\ coreErr = "none"
    /\ datumTable = datums

\* a call made on the heap h0 with outcome r
Called(call, h0, r) ==
    /\ coreCall' = call
    /\ heap0' = h0
    /\ heap' = r.heap
    /\ coreRet' = r.ret
    /\ coreErr' = r.err
    /\ UNCHANGED datumTable
    /\ UNCHANGED otherThanCore

\* the heaps of a receiver and an operand: another vector, the receiver
\* itself, an instance that is no vector, or no instance at all
Operands == {[heap |-> <<a, b>>, v |-> Ref(2)] : a \in Vectors, b \in Vectors}
                \cup {[heap |-> <<a>>, v |-> Ref(1)] : a \in Vectors}
                \cup {[heap |-> <<a, g>>, v |-> Ref(2)] : a \in Vectors, g \in GridRefs}
                \cup {[heap |-> <<a>>, v |-> x] : a \in Vectors, x \in NonObjects}

CallPlus ==
    /\ coreCall.fn = "none"
    /\ \E o \in Operands :
            Called([fn |-> "Vector3d.plus", v |-> o.v], o.heap, Vector3d_plus(o.heap, 1, o.v))

CallMinus ==
    /\ coreCall.fn = "none"
    /\ \E o \in Operands :
            Called([fn |-> "Vector3d.minus", v |-> o.v], o.heap, Vector3d_minus(o.heap, 1, o.v))

CallDot ==
    /\ coreCall.fn = "none"
    /\ \E o \in Operands :
            Called([fn |-> "Vector3d.dot", v |-> o.v], o.heap, Vector3d_dot(o.heap, 1, o.v))

CallCross ==
    /\ coreCall.fn = "none"
    /\ \E o \in Operands :
            Called([fn |-> "Vector3d.cross", v |-> o.v], o.heap, Vector3d_cross(o.heap, 1, o.v))

CallTimes ==
    /\ coreCall.fn = "none"
    /\ \E a \in Vectors, x \in Scalars :
            Called([fn |-> "Vector3d.times", x |-> x], <<a>>, Vector3d_times(<<a>>, 1, x))

CallDividedBy ==
    /\ coreCall.fn = "none"
    /\ \E a \in Vectors, x \in Scalars :
            Called([fn |-> "Vector3d.dividedBy", x |-> x], <<a>>, Vector3d_dividedBy(<<a>>, 1, x))

CallNegate ==
    /\ coreCall.fn = "none"
    /\ \E a \in Vectors :
            Called([fn |-> "Vector3d.negate"], <<a>>, Vector3d_negate(<<a>>, 1))

CallUnit ==
    /\ coreCall.fn = "none"
    /\ \E a \in Vectors :
            Called([fn |-> "Vector3d.unit"], <<a>>, Vector3d_unit(<<a>>, 1))

CallApplyTransform ==
    /\ coreCall.fn = "none"
    /\ \E c \in Cartesians, d \in DatumNames :
            Called([fn |-> "Cartesian_Datum.applyTransform", t |-> datums[d].transform], <<c>>,
                   Cartesian_Datum_applyTransform(<<c>>, 1, datums[d].transform))

CallCartesianConvertDatum ==
    /\ coreCall.fn = "none"
    /\ \E c \in Cartesians, toDatum \in DatumArgs :
            Called([fn |-> "Cartesian_Datum.convertDatum", toDatum |-> toDatum], <<c>>,
                   Cartesian_Datum_convertDatum(<<c>>, 1, toDatum))

CallCartesianToLatLon ==
    /\ coreCall.fn = "none"
    /\ \E c \in Cartesians, deprecatedDatum \in DatumArgs, geo \in Geodetic :
            Called([fn |-> "Cartesian_Datum.toLatLon", deprecatedDatum |-> deprecatedDatum,
                    geo |-> geo], <<c>>,
                   Cartesian_Datum_toLatLon(<<c>>, 1, deprecatedDatum, geo))

CallToCartesian ==
    /\ coreCall.fn = "none"
    /\ \E p \in CorePoints :
            Called([fn |-> "LatLonEllipsoidal_Datum.toCartesian"], <<p>>,
                   LatLonEllipsoidal_Datum_toCartesian(<<p>>, 1))

CallConvertDatum ==
    /\ coreCall.fn = "none"
    /\ \E p \in CorePoints, toDatum \in DatumArgs, geo \in Geodetic :
            Called([fn |-> "LatLon.convertDatum", toDatum |-> toDatum, geo |-> geo], <<p>>,
                   IF p.cls = "LatLon_OsGridRef"
                   THEN LatLon_OsGridRef_convertDatum(<<p>>, 1, toDatum, geo)
                   ELSE LatLonEllipsoidal_Datum_convertDatum(<<p>>, 1, toDatum, geo))

CallToOsGridOnHeap ==
    /\ coreCall.fn = "none"
    /\ \E p \in CorePoints, geo \in Geodetic :
            \E E \in Projected(PointToProject(<<p>>, 1, geo), MaxEasting),
               N \in Projected(PointToProject(<<p>>, 1, geo), MaxNorthing) :
                /\ p.cls = "LatLon_OsGridRef"
                /\ Called([fn |-> "LatLon_OsGridRef.toOsGrid", geo |-> geo, E |-> E, N |-> N],
                          <<p>>, LatLon_OsGridRef_toOsGrid(<<p>>, 1, geo, E, N))

CallGridToLatLon ==
    /\ coreCall.fn = "none"
    /\ \E g \in GridRefs, datum \in DatumArgs, onGrid \in OnGrid, geo \in Geodetic :
            Called([fn |-> "OsGridRef.toLatLon", datum |-> datum, onGrid |-> onGrid, geo |-> geo],
                   <<g>>, OsGridRef_toLatLon(<<g>>, 1, datum, onGrid, geo))

\* Object.freeze: a write to a datum record or to its transform leaves it as it was
Frozen(table, d, i, x) == table

\* datums[d].transform[i] = x by any code: refused with a TypeError in
\* strict mode, ignored otherwise
WriteDatum ==
    /\ coreCall.fn = "none"
    /\ \E d \in DatumNames, i \in 1..7, x \in {0, 1}, e \in {"TypeError", "none"} :
        /\ coreCall' = [fn |-> "write", d |-> d, i |-> i, x |-> x]
        /\ datumTable' = Frozen(datumTable, d, i, x)
        /\ coreErr' = e
    /\ UNCHANGED <<heap0, heap, coreRet>>
    /\ UNCHANGED otherThanCore

CoreReturn ==
    /\ coreCall.fn # "none"
    /\ coreCall' = [fn |-> "none"]
    /\ heap0' = <<>>
    /\ heap' = <<>>
    /\ coreRet' = Undefined
    /\ coreErr' = "none"
    /\ UNCHANGED datumTable
    /\ UNCHANGED otherThanCore

---------------------------------------------------------------------------
(* Claims about the transformations *)

\* the transforms of the result that the receiver did not have yet
AppliedSince(before, after) ==
    SubSeq(after.xyz.applied, Len(before.xyz.applied) + 1, Len(after.xyz.applied))

\* the 7 parameters with the sign changed
Opposite(t) == <<0 - t[1], 0 - t[2], 0 - t[3], 0 - t[4], 0 - t[5], 0 - t[6], 0 - t[7]>>

\* a call of Cartesian_Datum.convertDatum from one datum of the set to another
IsConversion(from, to) ==
    /\ coreCall.fn = "Cartesian_Datum.convertDatum"
    /\ heap0[1]._datum = from
    /\ coreCall.toDatum = to

\* the instances made by the call
Made == Len(heap) - Len(heap0)

\* C3: Cartesian_Datum.convertDatum(toDatum) on every ordered pair of
\* datums: from WGS84 it applies the target's transform, once; to WGS84 the
\* source's transform with its 7 parameters negated, once; otherwise the
\* negated source transform, then the target's, with one conversion to WGS84
\* in between and no more; the result carries toDatum.
Thm_C3_PivotThroughWGS84 ==
    \A from \in DatumNames, to \in DatumNames :
        IsConversion(from, to) =>
            /\ coreErr = "none"
            /\ coreRet = Ref(Len(heap))
            /\ heap[coreRet.id]._datum = to
            /\ from = "WGS84" /\ to # "WGS84" =>
                    /\ AppliedSince(heap0[1], heap[coreRet.id]) = <<datums[to].transform>>
                    /\ Made = 1
            /\ to = "WGS84" =>
                    /\ AppliedSince(heap0[1], heap[coreRet.id])
                            = <<Opposite(datums[from].transform)>>
                    /\ Made = 1
            /\ from # "WGS84" /\ to # "WGS84" =>
                    /\ AppliedSince(heap0[1], heap[coreRet.id])
                            = <<Opposite(datums[from].transform), datums[to].transform>>
                    /\ Made = 2
                    /\ heap[Len(heap0) + 1]._datum = "WGS84"
                    /\ AppliedSince(heap0[1], heap[Len(heap0) + 1])
                            = <<Opposite(datums[from].transform)>>

\* C3 witness: a point on OSGB36 has been converted to ED50 through WGS84
Wit_C3_OSGB36ToED50 ==
    /\ IsConversion("OSGB36", "ED50")
    /\ Made = 2
    /\ heap[coreRet.id]._datum = "ED50"
    /\ heap[coreRet.id].xyz.applied
            = <<<<446448000, -125157000, 542060000, -20489400, 150200, 247000, 842100>>,
                <<89500000, 93800000, 123100000, -1200000, 0, 0, 156000>>>>

\* the receiver and the operands are as they were before the call
Untouched(i) == heap[i] = heap0[i]

\* what the call returned is an instance the call made
ReturnsNewInstance == coreRet.k = "ref" => coreRet.id > Len(heap0)

\* a call of one of the transformations
IsTransformation == coreCall.fn \notin {"none", "write"}

IsUnitOfUnitOrNull ==
    /\ coreCall.fn = "Vector3d.unit"
    /\ SumOfSquares(heap0[1]) \in {0, VectorScale * VectorScale}

\* toLatLon(deprecatedDatum) with a recognised datum
IsToLatLonWithDatum ==
    /\ coreCall.fn = "Cartesian_Datum.toLatLon"
    /\ coreCall.deprecatedDatum \in DatumNames

---------------------------------------------------------------------------
(* Claims about the datum through the conversions *)

\* the call went through cartesian coordinates: a datum was converted
Converted == \E i \in (Len(heap0) + 1)..Len(heap) : heap[i].cls = "Cartesian_Datum"

\* the geodetic point made last (the receiver, where the call made none)
LastPoint ==
    heap[CHOOSE i \in DOMAIN heap :
            /\ heap[i].cls = "LatLon_OsGridRef"
            /\ \A j \in DOMAIN heap : heap[j].cls = "LatLon_OsGridRef" => j <= i]

\* toOsGrid() got as far as the projection: it returned, or the grid turned
\* the values down
HasProjected ==
    /\ coreCall.fn = "LatLon_OsGridRef.toOsGrid"
    /\ coreErr \in {"none", "Error"}

\* C23: convertDatum(toDatum) returns a point tagged toDatum;
\* OsGridRef.toLatLon(datum) returns a point tagged with the datum asked for,
\* WGS84 by default, and converts no datum exactly when OSGB36 is asked for
\* (the point then has the latitude and longitude of the inverse series);
\* toOsGrid() projects the receiver itself exactly when its datum is OSGB36
\* and otherwise the point convertDatum(OSGB36) gave, so that the point
\* projected is always tagged OSGB36.
Thm_C23_DatumFollowsConversion ==
    /\ coreCall.fn = "LatLon.convertDatum" /\ coreErr = "none" =>
            heap[coreRet.id]._datum = coreCall.toDatum
    /\ coreCall.fn = "OsGridRef.toLatLon" /\ coreErr = "none" =>
            /\ heap[coreRet.id].cls = "LatLon_OsGridRef"
            /\ heap[coreRet.id]._datum = DefaultWGS84(coreCall.datum)
            /\ Converted <=> DefaultWGS84(coreCall.datum) # "OSGB36"
            /\ ~Converted =>
                    /\ heap[coreRet.id]._lat = wrap90(coreCall.onGrid.lat)
                    /\ heap[coreRet.id]._lon = wrap180(coreCall.onGrid.lon)
                    /\ Made = 1
    /\ HasProjected =>
            /\ Converted <=> heap0[1]._datum # "OSGB36"
            /\ LastPoint = heap0[1] <=> heap0[1]._datum = "OSGB36"
            /\ LastPoint._datum = "OSGB36"
            /\ Converted =>
                    /\ LastPoint._lat = wrap90(coreCall.geo.lat)
                    /\ LastPoint._lon = wrap180(coreCall.geo.lon)

\* C23 witness: toOsGrid() on a point of ED50 returned a grid reference,
\* after a conversion that left a point tagged OSGB36
Wit_C23_ProjectedAfterConversion ==
    /\ coreCall.fn = "LatLon_OsGridRef.toOsGrid"
    /\ coreErr = "none"
    /\ heap0[1]._datum = "ED50"
    /\ heap[coreRet.id].cls = "OsGridRef"
    /\ Converted
    /\ LastPoint # heap0[1]
    /\ LastPoint._datum = "OSGB36"

---------------------------------------------------------------------------
(* Sequences of calls on datum-aware points: each call is made on an *)
(* instance an earlier call left on the heap *)

\* transforms a cartesian point may carry before the sequence stops converting it
MaxApplied == 2

DatumAwareClasses == {"LatLonEllipsoidal_Datum", "LatLon_OsGridRef"}

\* datums handed over in a sequence: two of the datums, none, null, {}
ChainDatums == {"WGS84", "OSGB36", DatumUndefined, DatumNull, DatumNoEllipsoid}

\* latitude, longitude and height handed to the constructor and to parse
ChainLats == {Num(Deg(52) + 2369), Str(<<"5", "2", "N">>), NaN}
ChainLons == {Num(Deg(1) + 2578)}
ChainHeights == {Undefined, Num(46)}

\* what the conversions compute
ChainGeodetic == {geo \in Geodetic : geo.lat.v > 0 /\ geo.lon.v < Deg(180)}

\* the last argument of parse: a datum, null, undefined, {} or none at all
ChainLastArgs ==
    {<<DatumArg("OSGB36")>>, <<Null>>, <<Undefined>>,
     <<Obj(Undefined, Undefined, Undefined, Undefined, Undefined, Undefined, Undefined, Undefined)>>,
     <<>>}

\* the arguments of parse
ChainParseArgs ==
    {<<lat, lon>> \o last : lat \in ChainLats, lon \in ChainLons, last \in ChainLastArgs}
    \cup {<<lat, lon, Num(46)>> \o last : lat \in ChainLats, lon \in ChainLons, last \in ChainLastArgs}

NewPoint ==
    /\ \E cls \in DatumAwareClasses, lat \in ChainLats, lon \in ChainLons,
          height \in ChainHeights, datum \in ChainDatums :
        Called([fn |-> "new", cls |-> cls, lat |-> lat, lon |-> lon, height |-> height,
                datum |-> datum],
               <<>>, New(<<>>, LatLonEllipsoidal_Datum(cls, lat, lon, height, datum)))

ParsePoint ==
    /\ \E cls \in DatumAwareClasses, args \in ChainParseArgs :
        Called([fn |-> "parse", cls |-> cls, args |-> args],
               <<>>, New(<<>>, LatLonEllipsoidal_Datum_parse(cls, args)))

ThenConvertDatum ==
    \E i \in DOMAIN heap, toDatum \in ChainDatums, geo \in ChainGeodetic :
        /\ heap[i].cls \in DatumAwareClasses
        /\ Called([fn |-> "LatLon.convertDatum", toDatum |-> toDatum, geo |-> geo], <<heap[i]>>,
                  IF heap[i].cls = "LatLon_OsGridRef"
                  THEN LatLon_OsGridRef_convertDatum(<<heap[i]>>, 1, toDatum, geo)
                  ELSE LatLonEllipsoidal_Datum_convertDatum(<<heap[i]>>, 1, toDatum, geo))

ThenToCartesian ==
    \E i \in DOMAIN heap :
        /\ heap[i].cls \in DatumAwareClasses
        /\ Called([fn |-> "LatLonEllipsoidal_Datum.toCartesian"], <<heap[i]>>,
                  LatLonEllipsoidal_Datum_toCartesian(<<heap[i]>>, 1))

ThenCartesianConvertDatum ==
    \E i \in DOMAIN heap, toDatum \in ChainDatums :
        /\ heap[i].cls = "Cartesian_Datum"
        /\ Len(heap[i].xyz.applied) < MaxApplied
        /\ Called([fn |-> "Cartesian_Datum.convertDatum", toDatum |-> toDatum], <<heap[i]>>,
                  Cartesian_Datum_convertDatum(<<heap[i]>>, 1, toDatum))

ThenToLatLon ==
    \E i \in DOMAIN heap, deprecatedDatum \in ChainDatums, geo \in ChainGeodetic :
        /\ heap[i].cls = "Cartesian_Datum"
        /\ Called([fn |-> "Cartesian_Datum.toLatLon", deprecatedDatum |-> deprecatedDatum,
                   geo |-> geo], <<heap[i]>>,
                  Cartesian_Datum_toLatLon(<<heap[i]>>, 1, deprecatedDatum, geo))

ThenToOsGrid ==
    \E i \in DOMAIN heap, geo \in ChainGeodetic :
        /\ heap[i].cls = "LatLon_OsGridRef"
        /\ Called([fn |-> "LatLon_OsGridRef.toOsGrid", geo |-> geo], <<heap[i]>>,
                  LatLon_OsGridRef_toOsGrid(<<heap[i]>>, 1, geo, Raw(Metres(651409), 0),
                                            Raw(Metres(313177), 0)))

ThenGridToLatLon ==
    \E i \in DOMAIN heap, datum \in ChainDatums, onGrid \in OnGrid, geo \in ChainGeodetic :
        /\ heap[i].cls = "OsGridRef"
        /\ Called([fn |-> "OsGridRef.toLatLon", datum |-> datum, onGrid |-> onGrid, geo |-> geo],
                  <<heap[i]>>, OsGridRef_toLatLon(<<heap[i]>>, 1, datum, onGrid, geo))

---------------------------------------------------------------------------
(* Claims about the datum of a point *)

\* the datum is one of the datums, and its ellipsoid one of the ellipsoids
HasEllipsoid(o) == o._datum \in DatumNames /\ datums[o._datum].ellipsoid \in EllipsoidNames

\* the call threw a TypeError and made no instance
NoPointMade == coreErr = "TypeError" /\ heap = heap0

\* the datum handed to parse, where one was handed over
ParsedWithDatum(d) ==
    /\ coreCall.fn = "parse"
    /\ Len(coreCall.args) >= 3
    /\ Last(coreCall.args) = d

\* C12: every datum-aware point on the heap, after any sequence of
\* construction, parse, convertDatum, toCartesian, toLatLon, toOsGrid and
\* OsGridRef.toLatLon calls, has a datum with a defined ellipsoid; the
\* constructor and parse given a datum that is null or has no ellipsoid, and
\* convertDatum given an unrecognised datum, throw a TypeError and make no
\* point; a constructor or parse call without datum makes a point on WGS84.
Thm_C12_DatumAlwaysRecognised ==
    /\ \A i \in DOMAIN heap : heap[i].cls \in DatumAwareClasses => HasEllipsoid(heap[i])
    /\ coreCall.fn = "new" /\ coreCall.datum \in {DatumNull, DatumNoEllipsoid} => NoPointMade
    /\ coreCall.fn = "new" /\ coreCall.datum = DatumUndefined /\ coreErr = "none" =>
            heap[coreRet.id]._datum = "WGS84"
    /\ ParsedWithDatum(Null) => NoPointMade
    /\ ParsedWithDatum(Obj(Undefined, Undefined, Undefined, Undefined, Undefined, Undefined,
                           Undefined, Undefined)) => NoPointMade
    /\ coreCall.fn = "parse" /\ Len(coreCall.args) = 2 /\ coreErr = "none" =>
            heap[coreRet.id]._datum = "WGS84"
    /\ coreCall.fn = "LatLon.convertDatum" /\ coreCall.toDatum \notin DatumNames => NoPointMade

\* C12 witness: a point parsed on OSGB36 has been converted to WGS84, and
\* the point returned carries WGS84
Wit_C12_ParsedThenConverted ==
    /\ coreCall.fn = "LatLon.convertDatum"
    /\ coreCall.toDatum = "WGS84"
    /\ heap0[1]._datum = "OSGB36"
    /\ coreErr = "none"
    /\ heap[coreRet.id].cls = "LatLonEllipsoidal_Datum"
    /\ heap[coreRet.id]._datum = "WGS84"

---------------------------------------------------------------------------
(* Construction of a LatLon point from any three values *)

\* the heights handed to the constructor: omitted, numbers, NaN, the
\* infinities, null, and numeric and other text
ConstructHeights ==
    {Undefined, Num(0), Num(17), NaN, PosInf, NegInf, Null, Str(<<"1", "7">>),
     Str(<<"a", "b", "c">>)}

\* new LatLon(lat, lon, height), LatLon being any of the three classes
ConstructPoint ==
    /\ coreCall.fn = "none"
    /\ \E cls \in PointClasses, lat \in PointArgs, lon \in PointArgs, height \in ConstructHeights :
        Called([fn |-> "construct", cls |-> cls, lat |-> lat, lon |-> lon, height |-> height],
               <<>>,
               New(<<>>, IF cls = "LatLonEllipsoidal" THEN LatLonEllipsoidal(lat, lon, height)
                         ELSE LatLonEllipsoidal_Datum(cls, lat, lon, height, DatumUndefined)))

\* a finite number, or text convertible to one
IsFiniteArg(x, scale) == x.k \in {"num", "str"} /\ IsFinite(x, scale)

\* C13: new LatLon(lat, lon, height) throws a TypeError and makes no point
\* unless lat, lon and height (where given) are each a finite number or text
\* convertible to one: NaN, null, other text and the infinities are rejected
\* for each of the three.
Claim_C13_NonFiniteRejected ==
    coreCall.fn = "construct" =>
        \/ /\ IsFiniteArg(coreCall.lat, Scale)
           /\ IsFiniteArg(coreCall.lon, Scale)
           /\ coreCall.height = Undefined \/ IsFiniteArg(coreCall.height, HeightScale)
        \/ coreErr = "TypeError" /\ heap = <<>>

---------------------------------------------------------------------------
(* LatLon.parse in its four shapes, and equals *)

\* Math.abs(a - b) > Number.EPSILON: a difference that is NaN is not greater
Differs(a, b) == JsLt(Num(0), JsAbs(JsMinus(a, b)))

\* p.equals(q), both instances of LatLonEllipsoidal: neither class has a
\* reference frame or an epoch, which are undefined on both
equals(p, q) ==
    /\ ~Differs(p._lat, q._lat)
    /\ ~Differs(p._lon, q._lon)
    /\ ~Differs(p._height, q._height)
    /\ p._datum = q._datum

\* a value and the text a caller writes for it
Written(val, text) == [val |-> val, text |-> text]

\* latitudes and longitudes: numbers in and out of range, sexagesimal text,
\* and values that are no number
ShapeLats ==
    {Written(Num(Deg(52)), <<"5", "2">>),
     Written(Num(Deg(52) + 1800), <<"5", "2", ".", "5">>),
     Written(Num(Deg(-91)), <<"-", "9", "1">>),
     Written(Num(0), <<"0">>),
     Written(Str(<<"4", "5", " ", "3", "0", " ", "S">>), <<"4", "5", " ", "3", "0", " ", "S">>),
     Written(NaN, NaNText),
     Written(PosInf, InfinityText),
     Written(Undefined, <<"u", "n", "d", "e", "f", "i", "n", "e", "d">>),
     Written(Str(<<"a", "b", "c">>), <<"a", "b", "c">>)}
ShapeLons ==
    {Written(Num(Deg(1)), <<"1">>),
     Written(Num(Deg(181)), <<"1", "8", "1">>),
     Written(NegInf, <<"-">> \o InfinityText),
     Written(Str(<<"x">>), <<"x">>)}

\* heights: none, or a number of metres
ShapeHeights == {<<>>, <<Num(0)>>, <<Num(46)>>}

\* the names of the latitude and of the longitude in an object
LatKeys == {"lat", "latitude"}
LonKeys == {"lon", "lng", "longitude"}

\* the height of an object: a property of it
HeightProperty(h) == IF h = <<>> THEN Undefined ELSE h[1]

\* { lat|latitude, lon|lng|longitude, height }
PointObject(latKey, lonKey, lat, lon, h) ==
    Obj(Undefined, Undefined,
        IF latKey = "latitude" THEN lat ELSE Undefined,
        IF latKey = "lat" THEN lat ELSE Undefined,
        IF lonKey = "longitude" THEN lon ELSE Undefined,
        IF lonKey = "lng" THEN lon ELSE Undefined,
        IF lonKey = "lon" THEN lon ELSE Undefined,
        HeightProperty(h))

\* { type: 'Point', coordinates: [lon, lat(, height)] }
GeoJSONPoint(lat, lon, h) ==
    Obj(Str(<<"P", "o", "i", "n", "t">>), Array(<<lon, lat>> \o h),
        Undefined, Undefined, Undefined, Undefined, Undefined, Undefined)

\* the arguments of parse in each shape
ShapeArgs(shape, latKey, lonKey, lat, lon, h) ==
    CASE shape = "positional" -> <<lat.val, lon.val>> \o h
      [] shape = "text" -> <<Str(lat.text \o <<",">> \o lon.text)>> \o h
      [] shape = "object" -> <<PointObject(latKey, lonKey, lat.val, lon.val, h)>>
      [] shape = "geojson" -> <<GeoJSONPoint(lat.val, lon.val, h)>>

\* LatLon.parse(...args), LatLon being any of the three classes
ParseOn(cls, args) ==
    IF cls = "LatLonEllipsoidal" THEN LatLonEllipsoidal_parse(cls, args)
    ELSE LatLonEllipsoidal_Datum_parse(cls, args)

\* one call of parse in a shape
ParseShape(shape, latKey, lonKey) ==
    \E cls \in PointClasses, lat \in ShapeLats, lon \in ShapeLons, h \in ShapeHeights :
        Called([fn |-> "LatLon.parse", cls |-> cls, shape |-> shape, lat |-> lat, lon |-> lon,
                h |-> h, args |-> ShapeArgs(shape, latKey, lonKey, lat, lon, h)],
               <<>>, New(<<>>, ParseOn(cls, ShapeArgs(shape, latKey, lonKey, lat, lon, h))))

ParsePositional ==
    /\ coreCall.fn = "none"
    /\ ParseShape("positional", "lat", "lon")

ParseText ==
    /\ coreCall.fn = "none"
    /\ ParseShape("text", "lat", "lon")

ParseObject ==
    /\ coreCall.fn = "none"
    /\ \E latKey \in LatKeys, lonKey \in LonKeys : ParseShape("object", latKey, lonKey)

ParseGeoJSON ==
    /\ coreCall.fn = "none"
    /\ ParseShape("geojson", "lat", "lon")

\* the same latitude, longitude and height as positional arguments
AsPositional ==
    ParseOn(coreCall.cls, ShapeArgs("positional", "lat", "lon", coreCall.lat, coreCall.lon,
                                    coreCall.h))

\* a value that is no number: it neither converts to a finite number nor
\* reads as degrees, minutes and seconds
CannotBeParsed(x) == ~IsFinite(x, Scale) /\ IsNaNNum(parse(x))

\* a GeoJSON Point has numbers as coordinates
IsNumber(x) == x.k \in {"num", "nan", "inf"}
NumbersInGeoJSON ==
    coreCall.shape = "geojson" => IsNumber(coreCall.lat.val) /\ IsNumber(coreCall.lon.val)

\* every shape gives the point the positional arguments give
SameInEveryShape ==
    coreCall.fn = "LatLon.parse" /\ NumbersInGeoJSON /\ AsPositional.err = "none" =>
        /\ coreErr = "none"
        /\ equals(heap[coreRet.id], AsPositional.val)
        /\ equals(AsPositional.val, heap[coreRet.id])

\* every shape throws where the latitude or the longitude is no number
ThrowsInEveryShape ==
    coreCall.fn = "LatLon.parse"
        /\ (CannotBeParsed(coreCall.lat.val) \/ CannotBeParsed(coreCall.lon.val)) =>
            coreErr = "TypeError" /\ heap = <<>>

\* C14: LatLon.parse gives the same point (equal under equals) for the same
\* latitude, longitude and height given as positional arguments, as one
\* 'lat,lon' text, as an object with lat|latitude and lon|lng|longitude, or
\* as a GeoJSON Point with numbers as coordinates [lon, lat(, height)]; and
\* it throws a TypeError where the latitude or the longitude cannot be parsed to a
\* number, in each of the four shapes.
Claim_C14_FourShapesAgree == SameInEveryShape /\ ThrowsInEveryShape

---------------------------------------------------------------------------
(* Vectors made of any three values, and operands of any kind *)

\* what is handed over as a component
VectorArgs ==
    {Num(0), Num(VectorScale), Num(-3), NaN, PosInf, NegInf, Null, Undefined,
     Str(<<"2">>), Str(<<"a", "b", "c">>)}

ConstructVector ==
    /\ coreCall.fn = "none"
    /\ \E cls \in {"Vector3d", "Cartesian"}, x \in VectorArgs, y \in VectorArgs, z \in VectorArgs :
        Called([fn |-> "construct", cls |-> cls, x |-> x, y |-> y, z |-> z], <<>>,
               New(<<>>, IF cls = "Vector3d" THEN Vector3d(x, y, z)
                         ELSE Cartesian_constructor(x, y, z)))

\* the normal handed to angleTo: none, a vector, or what is no vector
Normals == {Undefined, Null, Num(VectorScale), Str(<<"a", "b", "c">>)}

CallAngleTo ==
    /\ coreCall.fn = "none"
    /\ \/ \E o \in Operands, n \in Normals :
            Called([fn |-> "Vector3d.angleTo", v |-> o.v, n |-> n], o.heap,
                   Vector3d_angleTo(o.heap, 1, o.v, n))
       \/ \E a \in Vectors, b \in Vectors, c \in Vectors :
            Called([fn |-> "Vector3d.angleTo", v |-> Ref(2), n |-> Ref(3)], <<a, b, c>>,
                   Vector3d_angleTo(<<a, b, c>>, 1, Ref(2), Ref(3)))

\* the angle handed to rotateAround: quarter turns, or what is no finite number
Angles ==
    {Num(q * (HalfTurn \div 2)) : q \in 0..3} \cup {NaN, PosInf, Undefined, Str(<<"a", "b", "c">>)}

CallRotateAround ==
    /\ coreCall.fn = "none"
    /\ \E o \in Operands, angle \in Angles :
            Called([fn |-> "Vector3d.rotateAround", v |-> o.v, angle |-> angle], o.heap,
                   Vector3d_rotateAround(o.heap, 1, o.v, angle))

\* a finite number, or text convertible to one, as a component
IsFiniteComponent(x) == IsFiniteArg(x, VectorScale)

\* a number, or text convertible to one, as a scalar
IsNumericScalar(x) == x.k \in {"num", "inf"} \/ (x.k = "str" /\ ~IsNaN(x, VectorScale))

\* the methods that take another vector
TakesVector ==
    {"Vector3d.plus", "Vector3d.minus", "Vector3d.dot", "Vector3d.cross", "Vector3d.angleTo",
     "Vector3d.rotateAround"}

\* a TypeError is thrown and no vector is returned
NoVectorReturned == coreErr = "TypeError" /\ coreRet.k # "ref" /\ heap = heap0

\* C19: new Vector3d(x, y, z) and new Cartesian(x, y, z) throw a TypeError
\* unless each component is a finite number (or text convertible to one); plus,
\* minus, dot, cross, angleTo and rotateAround throw a TypeError on an operand
\* that is no Vector3d, times and dividedBy on a scalar that is no number; and
\* in none of these cases is a vector returned.
Claim_C19_NoVectorFromNonNumbers ==
    /\ coreCall.fn = "construct" =>
            \/ /\ IsFiniteComponent(coreCall.x)
               /\ IsFiniteComponent(coreCall.y)
               /\ IsFiniteComponent(coreCall.z)
            \/ NoVectorReturned
    /\ coreCall.fn \in TakesVector /\ ~IsVector3d(heap0, coreCall.v) => NoVectorReturned
    /\ coreCall.fn \in {"Vector3d.times", "Vector3d.dividedBy"} /\ ~IsNumericScalar(coreCall.x) =>
            NoVectorReturned

---------------------------------------------------------------------------
(* From WGS84 to another datum and back *)

\* x, y, z in centimetres of points on WGS84: Greenwich, Land's End, Shetland,
\* Belfast (100 m up), Norwich, the Hebrides (1345 m up), the north pole, two
\* points of the equator, and 45 S 170 E at 8000 m
PositionCm ==
    <<<<398057251, -10421, 496683145>>,
      <<408161501, -40739934, 486779019>>,
      <<314804832, -6594221, 552812040>>,
      <<368342149, -38064458, 517579775>>,
      <<387511052, 11636447, 504772013>>,
      <<345292710, -45458648, 532702811>>,
      <<0, 0, 635675231>>,
      <<637813700, 0, 0>>,
      <<0, 637813700, 0>>,
      <<-445452944, 78545373, -449300526>>>>

ConvertFromWGS84 ==
    /\ coreCall.fn = "none"
    /\ \E n \in DOMAIN PositionCm, toDatum \in DatumNames :
            Called([fn |-> "Cartesian_Datum.convertDatum", toDatum |-> toDatum],
                   <<Cartesian_Datum(Xyz(n), "WGS84").val>>,
                   Cartesian_Datum_convertDatum(<<Cartesian_Datum(Xyz(n), "WGS84").val>>, 1, toDatum))

\* the point just returned is converted back
ConvertBack ==
    /\ coreCall.fn = "Cartesian_Datum.convertDatum"
    /\ Len(heap) = 2
    /\ Called([fn |-> "Cartesian_Datum.convertDatum", toDatum |-> "WGS84"], heap,
              Cartesian_Datum_convertDatum(heap, coreRet.id, "WGS84"))

\* a point has gone to the datum and back to WGS84
IsBackFrom(datum) ==
    /\ coreCall.fn = "Cartesian_Datum.convertDatum"
    /\ Len(heap) = 3
    /\ heap[2]._datum = datum

Abs(n) == IF n < 0 THEN -n ELSE n

\* the points p and q are less than a metre (100 cm) apart
WithinAMetre(p, q) ==
    /\ \A i \in 1..3 : Abs(p[i] - q[i]) < 100
    /\ (p[1] - q[1]) * (p[1] - q[1]) + (p[2] - q[2]) * (p[2] - q[2])
            + (p[3] - q[3]) * (p[3] - q[3]) < 100 * 100

\* the coordinates of the instance at id
CoordinatesCm(id) == AfterTransforms(PositionCm[heap[id].xyz.of], heap[id].xyz.applied)

---------------------------------------------------------------------------
(* getPopulation around any cell of a raster *)

\* kilometre lines of the grid a point is projected to
MaxKm == 11

\* a raster of the given size whose cells are distinct powers of two, with
\* no data in the cell of row 2, column 2 (counted from 1)
RasterOf(height, width) ==
    [r \in 1..height |->
        [c \in 1..width |->
            IF r = 2 /\ c = 2 THEN NoData ELSE IntToStr(Pow2((r - 1) * width + c - 1))]]

Rasters == {RasterOf(1, 1), RasterOf(3, 3), RasterOf(4, 3)}

\* what the projection gives: a whole kilometre, or half a kilometre more
KmValues == {Raw(Metres(1000 * k + o), 0) : k \in 0..MaxKm, o \in {0, 500}}

\* what getPopulation returned or threw
Outcome(r) == IF r.err = "none" THEN Value(<<>>, r.val) ELSE Fail(<<>>, r.err)

CallGetPopulation ==
    /\ coreCall.fn = "none"
    /\ \E E \in KmValues, N \in KmValues, d \in Rasters :
            Called([fn |-> "getPopulation", E |-> E, N |-> N, dataset |-> d], <<>>,
                   Outcome(getPopulation(<<Num(Deg(1) + 2578), Num(Deg(52) + 2369)>>, d,
                                         [geo |-> [lat |-> Num(Deg(52) + 2374), lon |-> Num(Deg(1) + 2583),
                                                   height |-> Num(46)],
                                          E |-> E, N |-> N])))

\* Math.round of metres (counted in millimetres) in kilometres
WholeKm(m) == (m.v + Metres(500)) \div Metres(1000)

\* the cells of the raster in rows y-2 .. y+1 and columns x-2 .. x+1, rows
\* and columns counted from 0
Window(x, y, d) ==
    {<<r, c>> \in ((y - 2)..(y + 1)) \X ((x - 2)..(x + 1)) :
        r + 1 \in DOMAIN d /\ c + 1 \in DOMAIN d[r + 1]}

\* the sum of the cells, no data counting as 0
RECURSIVE SumOfCells(_, _)
SumOfCells(d, cells) ==
    IF cells = {} THEN 0
    ELSE SumOfCells(d, cells \ {CHOOSE p \in cells : TRUE})
            + CellValue(d[(CHOOSE p \in cells : TRUE)[1] + 1][(CHOOSE p \in cells : TRUE)[2] + 1]).v

\* C24: getPopulation(point, dataset) rounds easting and northing of the
\* grid reference to kilometres, and with x = e_km - 4 and y = n_km - 6
\* returns the sum of the cells of the raster in rows y-2 .. y+1 and columns
\* x-2 .. x+1 that exist, no data counting as 0, for every x and y, those with
\* y-2 or x-2 negative included.
Claim_C24_SumOfTheWindow ==
    coreCall.fn = "getPopulation" =>
        /\ coreErr = "none"
        /\ coreRet = Num(SumOfCells(coreCall.dataset,
                                    Window(WholeKm(coreCall.E) - 4, WholeKm(coreCall.N) - 6,
                                           coreCall.dataset)))

---------------------------------------------------------------------------
(* Runs of the build *)

MaxLines == 2
MaxItems == 1

\* lines of the raster file: a header, rows, a row that starts with a blank
FileLines ==
    {<<"n", " ", "2">>,
     <<"6", "0", "0", " ", "2">>,
     <<"-", "9", "9", "9", "9", " ", " ", "7", " ">>,
     <<" ", "3", " ", "4">>}

RECURSIVE SeqsUpTo(_, _)
SeqsUpTo(S, n) ==
    IF n = 0 THEN {<<>>}
    ELSE SeqsUpTo(S, n - 1) \cup {Append(s, x) : s \in SeqsUpTo(S, n - 1), x \in S}

Files == SeqsUpTo(FileLines, MaxLines)

Groups == <<"BIB_GOURMAND", "COTE_BRASSERIE">>

\* what the conversion gives for an item: on the grid, or west of it
OnTheGrid == [geo |-> [lat |-> Num(Deg(52) + 2374), lon |-> Num(Deg(1) + 2583), height |-> Num(46)],
              E |-> Raw(Metres(5400), 0), N |-> Raw(Metres(7500), 0)]
WestOfGrid == [OnTheGrid EXCEPT !.E = Raw(-1, 4)]

\* items of a group: in the UK and on the grid, in the UK and off the grid,
\* outside the UK, and with text as longitude (which the polygon test, left
\* to itself, takes or not)
ItemsOf(group) ==
    {[group |-> group, name |-> <<" ", "A">>, url |-> "a", longitude |-> Num(Deg(1) + 2578),
      latitude |-> Num(Deg(52) + 2369), inPolygon |-> in, series |-> s] :
        in \in BOOLEAN, s \in {OnTheGrid, WestOfGrid}}
    \cup {[group |-> group, name |-> <<"B">>, url |-> "b", longitude |-> Str(<<"1">>),
           latitude |-> Num(Deg(52) + 2369), inPolygon |-> in, series |-> OnTheGrid] :
                in \in BOOLEAN}

\* Object.entries(dataset), then the items of each group, in order
Datasets ==
    {a \o b : a \in SeqsUpTo(ItemsOf(Groups[1]), MaxItems),
              b \in SeqsUpTo(ItemsOf(Groups[2]), MaxItems)}

IdleBuild ==
    /\ buildPc = "idle"
    /\ file = <<>>
    /\ lineNo = 0
    /\ rows = <<>>
    /\ loads = 0
    /\ population = Undefined
    /\ entries = <<>>
    /\ todo = <<>>
    /\ features = <<>>
    /\ queries = <<>>
    /\ buildErr = "none"
    /\ exitCode = Undefined

\* run(): loadPopulationData() is called and opens the file
StartRun ==
    /\ buildPc = "idle"
    /\ \E f \in Files, d \in Datasets :
            /\ file' = f
            /\ entries' = d
            /\ todo' = d
    /\ buildPc' = "loading"
    /\ lineNo' = 0
    /\ rows' = <<>>
    /\ loads' = loads + 1
    /\ UNCHANGED <<population, features, queries, buildErr>>
    /\ UNCHANGED exitCode
    /\ UNCHANGED otherThanBuild

\* one turn of the for await loop
ReadLine ==
    /\ buildPc = "loading"
    /\ ~EndOfInput(file, lineNo)
    /\ lineNo' = lineNo + 1
    /\ rows' = PushLine(rows, file[lineNo + 1])
    /\ UNCHANGED <<buildPc, file, loads, population, todo, features, queries, buildErr>>
    /\ UNCHANGED entries
    /\ UNCHANGED exitCode
    /\ UNCHANGED otherThanBuild

\* after the loop: rows.reverse(), the console.log, return rows; run() goes
\* on with the rows as population
FinishLoad ==
    /\ buildPc = "loading"
    /\ EndOfInput(file, lineNo)
    /\ rows' = Reverse(rows)
    /\ IF LoadThrows(Reverse(rows))
       THEN buildPc' = "rejected" /\ buildErr' = "TypeError" /\ UNCHANGED population
       ELSE buildPc' = "items" /\ population' = Reverse(rows) /\ UNCHANGED buildErr
    /\ UNCHANGED <<file, lineNo, loads, todo, features, queries>>
    /\ UNCHANGED entries
    /\ UNCHANGED exitCode
    /\ UNCHANGED otherThanBuild

\* an item that isInUK turns down
SkipItem ==
    /\ buildPc = "items"
    /\ todo # <<>>
    /\ ~isInUK(<<todo[1].longitude, todo[1].latitude>>, todo[1].inPolygon)
    /\ todo' = Tail(todo)
    /\ UNCHANGED <<buildPc, file, lineNo, rows, loads, population, features, queries, buildErr>>
    /\ UNCHANGED entries
    /\ UNCHANGED exitCode
    /\ UNCHANGED otherThanBuild

\* an item in the UK: getPopulation(point, population), then its feature
QueryItem ==
    /\ buildPc = "items"
    /\ todo # <<>>
    /\ isInUK(<<todo[1].longitude, todo[1].latitude>>, todo[1].inPolygon)
    /\ queries' = Append(queries, [dataset |-> population, read |-> lineNo])
    /\ IF getPopulation(<<todo[1].longitude, todo[1].latitude>>, population, todo[1].series).err
            # "none"
       THEN /\ buildPc' = "rejected"
            /\ buildErr' = getPopulation(<<todo[1].longitude, todo[1].latitude>>,
                                         population, todo[1].series).err
            /\ UNCHANGED <<todo, features>>
       ELSE /\ features' = Append(features,
                    Feature(todo[1], getPopulation(<<todo[1].longitude, todo[1].latitude>>,
                                                   population, todo[1].series).val))
            /\ todo' = Tail(todo)
            /\ UNCHANGED <<buildPc, buildErr>>
    /\ UNCHANGED <<file, lineNo, rows, loads, population>>
    /\ UNCHANGED entries
    /\ UNCHANGED exitCode
    /\ UNCHANGED otherThanBuild

\* return data
ReturnData ==
    /\ buildPc = "items"
    /\ todo = <<>>
    /\ buildPc' = "returned"
    /\ UNCHANGED <<file, lineNo, rows, loads, population, todo, features, queries, buildErr>>
    /\ UNCHANGED entries
    /\ UNCHANGED exitCode
    /\ UNCHANGED otherThanBuild

\* a write that does not wait for run() to return
WriteFile_early ==
    /\ buildPc \in {"items", "returned"}
    /\ \E ok \in BOOLEAN :
            IF ok THEN buildPc' = "written" /\ UNCHANGED buildErr
            ELSE buildPc' = "rejected" /\ buildErr' = "Error"
    /\ UNCHANGED <<file, lineNo, rows, loads, population, todo, features, queries>>
    /\ UNCHANGED entries
    /\ UNCHANGED exitCode
    /\ UNCHANGED otherThanBuild

\* writeFile(data, outputPath): the write succeeds or fails
WriteFile ==
    /\ buildPc = "returned"
    /\ \E ok \in BOOLEAN :
            IF ok THEN buildPc' = "written" /\ UNCHANGED buildErr
            ELSE buildPc' = "rejected" /\ buildErr' = "Error"
    /\ UNCHANGED <<file, lineNo, rows, loads, population, todo, features, queries>>
    /\ UNCHANGED entries
    /\ UNCHANGED exitCode
    /\ UNCHANGED otherThanBuild

\* console.log('Successfully wrote dataset.json')
LogSuccess ==
    /\ buildPc = "written"
    /\ buildPc' = "logged"
    /\ UNCHANGED <<file, lineNo, rows, loads, population, todo, features, queries, buildErr>>
    /\ UNCHANGED entries
    /\ UNCHANGED exitCode
    /\ UNCHANGED otherThanBuild

\* .catch: console.error(error), process.exit(1)
ExitOnError ==
    /\ buildPc = "rejected"
    /\ buildPc' = "exited"
    /\ exitCode' = Num(1)
    /\ UNCHANGED <<file, lineNo, rows, loads, population, todo, features, queries, buildErr>>
    /\ UNCHANGED entries
    /\ UNCHANGED otherThanBuild

---------------------------------------------------------------------------
(* Claims about the build *)

\* the rows of a file: its lines that start with a digit or a minus sign,
\* split at blanks, first line first
RECURSIVE RowsOfFile(_)
RowsOfFile(lines) ==
    IF lines = <<>> THEN <<>>
    ELSE IF lines[Len(lines)] # <<>> /\ lines[Len(lines)][1] \in {"-"} \cup {DigitChars[i] : i \in 1..10}
         THEN Append(RowsOfFile(SubSeq(lines, 1, Len(lines) - 1)),
                     SplitBlanks(Trim(lines[Len(lines)]), <<>>))
         ELSE RowsOfFile(SubSeq(lines, 1, Len(lines) - 1))

\* the raster of a file: its rows, last row first
RasterOfFile(lines) == [i \in 1..Len(RowsOfFile(lines)) |->
                            RowsOfFile(lines)[Len(RowsOfFile(lines)) + 1 - i]]

\* C4: in a run of the build every getPopulation query is made after
\* loadPopulationData has read every line of the file and reversed the rows,
\* and is made on that complete raster; the raster is loaded once per run and
\* stays as loaded while the items are queried.
Thm_C4_LoadedBeforeQueried ==
    /\ \A i \in DOMAIN queries :
            /\ queries[i].read = Len(file)
            /\ queries[i].dataset = RasterOfFile(file)
    /\ buildPc # "idle" => loads = 1
    /\ buildPc \in {"items", "returned", "written", "logged"} => population = RasterOfFile(file)
    /\ queries # <<>> => population = RasterOfFile(file)

\* C4 witness: a query has been made on a raster of two rows, which the file
\* holds in the other order
Wit_C4_QueriedReversedRaster ==
    /\ Len(queries) = 1
    /\ Len(features) = 1
    /\ file = <<<<"6", "0", "0", " ", "2">>, <<"-", "9", "9", "9", "9", " ", " ", "7", " ">>>>
    /\ queries[1].dataset = <<<<<<"-", "9", "9", "9", "9">>, <<"7">>>>, <<<<"6", "0", "0">>, <<"2">>>>>>

\* the items run() has visited
Visited == SubSeq(entries, 1, Len(entries) - Len(todo))

\* longitude and latitude are numbers and lie inside the outline
NumbersInUK(item) ==
    /\ item.longitude.k \in {"num", "nan", "inf"}
    /\ item.latitude.k \in {"num", "nan", "inf"}
    /\ item.inPolygon

\* the feature the item is due, on the raster of the file
FeatureDue(item, raster) ==
    [group |-> item.group,
     name |-> Trim(item.name),
     url |-> item.url,
     weight |-> getPointWeight(getPopulation(<<item.longitude, item.latitude>>,
                                             raster, item.series).val),
     coordinates |-> <<item.longitude, item.latitude>>]

\* the features due to a list of items, in the order of the list
RECURSIVE FeaturesDue(_, _)
FeaturesDue(list, raster) ==
    IF list = <<>> THEN <<>>
    ELSE (IF NumbersInUK(list[1]) THEN <<FeatureDue(list[1], raster)>> ELSE <<>>)
            \o FeaturesDue(Tail(list), raster)

\* C20: the features of the data hold one feature for each item whose
\* longitude and latitude are numbers inside the UK outline and none for any
\* other item, in the order of groups and items; each with the item's group,
\* trimmed name, url, the weight getPointWeight(getPopulation(point)) and the
\* coordinates [longitude, latitude].  This holds of the items visited so far
\* while run() iterates, and of all items in the data it returns and writes.
Thm_C20_OneFeaturePerItemInUK ==
    /\ buildPc = "items" => features = FeaturesDue(Visited, RasterOfFile(file))
    /\ buildPc \in {"returned", "written", "logged"} =>
            features = FeaturesDue(entries, RasterOfFile(file))

\* C20 witness: the data are written with the feature of the second group's
\* item alone, the first group's item having text as longitude that the
\* polygon test takes
Wit_C20_SecondItemAlone ==
    /\ buildPc = "logged"
    /\ Len(entries) = 2
    /\ entries[1].longitude.k = "str" /\ entries[1].inPolygon
    /\ Len(features) = 1
    /\ features[1].group = Groups[2]
    /\ features[1].name = <<"A">>
    /\ features[1].weight = 125

\* C26: the write is made only once run() has returned the data of all the
\* items, and the success message is logged only once the write has
\* completed; a failure of the load, of a query or of the write takes the run
\* to the catch handler, and from the failure on the only step of the process
\* is the exit with status 1: no item is retried or skipped, no write is
\* started and nothing is logged, and after the exit nothing happens at all.
Thm_C26_WriteLogOrExit ==
    [][/\ (buildPc' = "written" /\ buildPc # "written") =>
                /\ buildPc = "returned"
                /\ todo = <<>>
                /\ features = FeaturesDue(entries, RasterOfFile(file))
                /\ features' = features
       /\ (buildPc' = "logged" /\ buildPc # "logged") => buildPc = "written"
       /\ (buildErr = "none" /\ buildErr' # "none") =>
                /\ buildPc \in {"loading", "items", "returned"}
                /\ buildPc' = "rejected"
       /\ buildErr # "none" =>
                /\ buildPc = "rejected"
                /\ buildPc' = "exited"
                /\ exitCode' = Num(1)
                /\ buildErr' = buildErr
                /\ features' = features
       /\ exitCode' # Undefined => buildErr # "none"]_vars

\* C26 witness: the first item got its feature, the query of the second
\* failed, and the process has exited with status 1
Wit_C26_ExitedAfterFailedQuery ==
    /\ buildPc = "exited"
    /\ exitCode = Num(1)
    /\ Len(entries) = 2
    /\ Len(features) = 1
    /\ Len(queries) = 2
    /\ Len(todo) = 1
    /\ buildErr # "none"

---------------------------------------------------------------------------
(* Runs of the build on populations around the limits of the weights *)

\* the limits getPointWeight compares the population with
WeightLimits == {500, 2000, 7500, 20000, 50000}

\* populations: every value up to MaxOffset either side of a limit, and the
\* values from 0 to MaxOffset
MaxOffset == 8
Populations ==
    {t + d : t \in WeightLimits, d \in -MaxOffset..MaxOffset} \cup 0..MaxOffset

\* run() on a raster of one cell that holds the population, or no data, and
\* one item that the conversion puts on that cell
StartRunOnCell ==
    /\ buildPc = "idle"
    /\ \E line \in {IntToStr(p) : p \in Populations} \cup {NoData},
          item \in {i \in ItemsOf(Groups[1]) : i.series = OnTheGrid} :
            /\ file' = <<line>>
            /\ entries' = <<item>>
            /\ todo' = <<item>>
    /\ buildPc' = "loading"
    /\ lineNo' = 0
    /\ rows' = <<>>
    /\ loads' = loads + 1
    /\ UNCHANGED <<population, features, queries, buildErr>>
    /\ UNCHANGED exitCode
    /\ UNCHANGED otherThanBuild

\* the population of the one cell of the file
PopulationOfCell == IF file[1] = NoData THEN 0 ELSE DigitsVal(file[1])

\* the weight of a population, in hundredths
WeightOf(p) ==
    IF p < 500 THEN 125
    ELSE IF p < 2000 THEN 100
    ELSE IF p < 7500 THEN 75
    ELSE IF p < 20000 THEN 50
    ELSE IF p < 50000 THEN 25
    ELSE 10

\* C30: getPointWeight(p) is 1.25 for p < 500, 1 for 500 <= p < 2000, 0.75
\* for 2000 <= p < 7500, 0.5 for 7500 <= p < 20000, 0.25 for 20000 <= p <
\* 50000 and 0.1 for p >= 50000; no smaller population has a smaller weight;
\* and the weight of every feature of the data is one of the six values.
Thm_C30_WeightOfPopulation ==
    \A i \in DOMAIN features :
        /\ features[i].weight = WeightOf(PopulationOfCell)
        /\ features[i].weight \in {125, 100, 75, 50, 25, 10}
        /\ \A q \in Populations :
                q <= PopulationOfCell => getPointWeight(Num(q)) >= features[i].weight

\* C30 witness: the data written hold the feature of an item on a cell of
\* 7500 people, with the weight 0.5
Wit_C30_SevenThousandFiveHundred ==
    /\ buildPc = "written"
    /\ file = <<<<"7", "5", "0", "0">>>>
    /\ Len(features) = 1
    /\ features[1].weight = 50

---------------------------------------------------------------------------
(* The website: the filter UI *)

\* groupNames, in the order of its keys (the names without their accents)
groupNames ==
    <<[group |-> "BIB_GOURMAND", name |-> "Restaurant with a Bib Gourmand"],
      [group |-> "COTE_BRASSERIE", name |-> "Cote Brasserie"],
      [group |-> "FARM_SHOP", name |-> "Farm Shop"],
      [group |-> "INDEPENDENT_CINEMA", name |-> "Independent Cinema"],
      [group |-> "JOHN_LEWIS", name |-> "John Lewis"],
      [group |-> "JOJO_MAMAN_BEBE", name |-> "JoJo Maman Bebe"],
      [group |-> "NATIONAL_TRUST", name |-> "National Trust Property"],
      [group |-> "RHS_PARTNER_GARDEN", name |-> "RHS Partner Garden"],
      [group |-> "SPACE_NK", name |-> "Space NK"],
      [group |-> "SWEATY_BETTY", name |-> "Sweaty Betty"],
      [group |-> "THE_WHITE_COMPANY", name |-> "The White Company"],
      [group |-> "TROUVA_BOUTIQUE", name |-> "Trouva Boutique"]>>

\* the groups the menu is built for: the first MaxGroups keys of groupNames
MaxGroups == 5
GroupKeys == [i \in 1..MaxGroups |-> groupNames[i].group]

\* groupNames[group]
NameOf(group) == groupNames[CHOOSE i \in DOMAIN groupNames : groupNames[i].group = group].name

\* Set.prototype.has, delete and add on the groups in the order they were added
SetHas(set, x) == \E i \in DOMAIN set : set[i] = x
RECURSIVE SetDelete(_, _)
SetDelete(set, x) ==
    IF set = <<>> THEN <<>>
    ELSE IF set[1] = x THEN SetDelete(Tail(set), x)
    ELSE <<set[1]>> \o SetDelete(Tail(set), x)
SetAdd(set, x) == IF SetHas(set, x) THEN set ELSE Append(set, x)

\* `Hide ${name}` and `Show ${name}`
HideTitle(name) == <<"Hide ", name>>
ShowTitle(name) == <<"Show ", name>>

\* ['in', ['get', 'group'], ['literal', [...activeGroups]]]
InGroups(set) == [op |-> "in", get |-> "group", literal |-> set]
NoFilter == [op |-> "none"]

\* the page as the listeners see it
Page == [activeGroups |-> activeGroups, toggles |-> toggles, filters |-> filters]

IdleSite ==
    /\ activeGroups = <<>>
    /\ toggles = <<>>
    /\ filters = [density |-> NoFilter, markers |-> NoFilter]

\* the 'load' listener: the layers are added without a filter, and the menu
\* gets one button for each group
LoadMap ==
    /\ toggles = <<>>
    /\ activeGroups' = GroupKeys
    /\ toggles' = [i \in 1..MaxGroups |->
                        [group |-> GroupKeys[i],
                         title |-> HideTitle(NameOf(GroupKeys[i])),
                         pressed |-> "true"]]
    /\ UNCHANGED filters
    /\ UNCHANGED otherThanSite

\* a listener that hands the markers layer the groups as they were
onToggleClick_stale(group, page) ==
    LET isActive == SetHas(page.activeGroups, group)
        groups == IF isActive THEN SetDelete(page.activeGroups, group)
                  ELSE SetAdd(page.activeGroups, group)
    IN  [activeGroups |-> groups,
         toggles |-> [i \in DOMAIN page.toggles |->
                        IF page.toggles[i].group # group THEN page.toggles[i]
                        ELSE [group |-> group,
                              title |-> IF isActive THEN ShowTitle(NameOf(group))
                                        ELSE HideTitle(NameOf(group)),
                              pressed |-> IF isActive THEN "false" ELSE "true"]],
         filters |-> [density |-> InGroups(groups), markers |-> InGroups(page.activeGroups)]]

\* the 'click' listener of the button of a group
onToggleClick(group, page) ==
    LET isActive == SetHas(page.activeGroups, group)
        groups == IF isActive THEN SetDelete(page.activeGroups, group)
                  ELSE SetAdd(page.activeGroups, group)
    IN  [activeGroups |-> groups,
         toggles |-> [i \in DOMAIN page.toggles |->
                        IF page.toggles[i].group # group THEN page.toggles[i]
                        ELSE [group |-> group,
                              title |-> IF isActive THEN ShowTitle(NameOf(group))
                                        ELSE HideTitle(NameOf(group)),
                              pressed |-> IF isActive THEN "false" ELSE "true"]],
         filters |-> [density |-> InGroups(groups), markers |-> InGroups(groups)]]

\* a click on one of the buttons
ClickToggle ==
    /\ toggles # <<>>
    /\ \E i \in DOMAIN toggles :
            /\ activeGroups' = onToggleClick(toggles[i].group, Page).activeGroups
            /\ toggles' = onToggleClick(toggles[i].group, Page).toggles
            /\ filters' = onToggleClick(toggles[i].group, Page).filters
    /\ UNCHANGED otherThanSite

\* the groups of a Set, whatever their order
Members(set) == {set[i] : i \in DOMAIN set}

\* the button shows whether its group is active
ShowsState(toggle, set) ==
    IF SetHas(set, toggle.group)
    THEN toggle.pressed = "true" /\ toggle.title = HideTitle(NameOf(toggle.group))
    ELSE toggle.pressed = "false" /\ toggle.title = ShowTitle(NameOf(toggle.group))

\* a click on the button of the group adds or removes that group and no other
ChangesOwnGroupOnly(group, page) ==
    /\ SetHas(onToggleClick(group, page).activeGroups, group) = ~SetHas(page.activeGroups, group)
    /\ Members(onToggleClick(group, page).activeGroups) \ {group}
            = Members(page.activeGroups) \ {group}

\* a second click on the same button undoes the first
TwoClicksRestore(group, page) ==
    /\ Members(onToggleClick(group, onToggleClick(group, page)).activeGroups)
            = Members(page.activeGroups)
    /\ onToggleClick(group, onToggleClick(group, page)).toggles = page.toggles

\* C29: after any sequence of clicks on the buttons of the filter UI, every
\* button has aria-pressed 'true' and the title 'Hide <name>' exactly when its
\* group is in activeGroups, and 'false' and 'Show <name>' otherwise; a click
\* changes the membership of its own group only; two clicks on the same button
\* restore the membership and the buttons; and once a click has set them, the
\* filters of the layers 'density' and 'markers' both list exactly the groups
\* of activeGroups.
Thm_C29_TogglesShowActiveGroups ==
    /\ \A i \in DOMAIN toggles : ShowsState(toggles[i], activeGroups)
    /\ \A i \in DOMAIN toggles : ChangesOwnGroupOnly(toggles[i].group, Page)
    /\ \A i \in DOMAIN toggles : TwoClicksRestore(toggles[i].group, Page)
    /\ \A i, j \in DOMAIN activeGroups : activeGroups[i] = activeGroups[j] => i = j
    /\ filters.density = filters.markers
    /\ filters.density # NoFilter => filters.density = InGroups(activeGroups)
    /\ (toggles # <<>> /\ filters.density = NoFilter) => activeGroups = GroupKeys

\* C29 witness: the first group was hidden and shown again and the second is
\* hidden, so the first is now the last of the active groups
Wit_C29_HiddenAndShownAgain ==
    /\ toggles # <<>>
    /\ activeGroups = <<GroupKeys[3], GroupKeys[4], GroupKeys[5], GroupKeys[1]>>
    /\ toggles[1].pressed = "true"
    /\ toggles[2].pressed = "false"
    /\ toggles[2].title = ShowTitle("Cote Brasserie")
    /\ filters.markers = InGroups(activeGroups)

---------------------------------------------------------------------------
(* Specifications *)

\* the Dms functions, called one at a time
InitDms == IdleDms /\ IdlePoint /\ IdleGrid /\ IdleCore /\ IdleBuild /\ IdleSite

NextDms ==
    \/ CallWrap90
    \/ CallWrap180
    \/ CallWrap360
    \/ CallToLat
    \/ CallToLon
    \/ DmsReturn

SpecDms == InitDms /\ [][NextDms]_vars

\* calls of the Dms functions that read or write text
InitDmsText == IdleDms /\ IdlePoint /\ IdleGrid /\ IdleCore /\ IdleBuild /\ IdleSite

NextDmsText ==
    \/ CallParse
    \/ CallCompassPoint
    \/ CallToDms
    \/ CallToLatOfAny
    \/ CallToLonOfAny
    \/ CallToBrng
    \/ DmsReturn

SpecDmsText == InitDmsText /\ [][NextDmsText]_vars

\* calls of the functions that take a precision
InitPrecision == IdleDms /\ IdlePoint /\ IdleGrid /\ IdleCore /\ IdleBuild /\ IdleSite

NextPrecision ==
    \/ CallCompassPoint
    \/ CallToString
    \/ DmsReturn
    \/ GridReturn

SpecPrecision == InitPrecision /\ [][NextPrecision]_vars

\* one LatLon point: its construction, then assignments to its properties
InitPoint == IdleDms /\ IdlePoint /\ IdleGrid /\ IdleCore /\ IdleBuild /\ IdleSite

NextPoint ==
    \/ ConstructLatLonEllipsoidal
    \/ ConstructLatLonEllipsoidal_Datum
    \/ SetLat
    \/ SetLatitude
    \/ SetLon
    \/ SetLng
    \/ SetLongitude
    \/ SetHeight

SpecPoint == InitPoint /\ [][NextPoint]_vars

\* the grid references: constructor, parse and toOsGrid, called one at a time
InitGrid == IdleDms /\ IdlePoint /\ IdleGrid /\ IdleCore /\ IdleBuild /\ IdleSite

NextGrid ==
    \/ CallOsGridRef
    \/ CallParseStandard
    \/ CallParseNumeric
    \/ CallParseOther
    \/ CallParseMalformed
    \/ CallToOsGrid
    \/ GridReturn

SpecGrid == InitGrid /\ [][NextGrid]_vars

\* the transformations of the core, called one at a time
InitCore == IdleDms /\ IdlePoint /\ IdleGrid /\ IdleCore /\ IdleBuild /\ IdleSite

NextCore ==
    \/ CallPlus
    \/ CallMinus
    \/ CallDot
    \/ CallCross
    \/ CallTimes
    \/ CallDividedBy
    \/ CallNegate
    \/ CallUnit
    \/ CallApplyTransform
    \/ CallCartesianConvertDatum
    \/ CallCartesianToLatLon
    \/ CallToCartesian
    \/ CallConvertDatum
    \/ CallToOsGridOnHeap
    \/ CallGridToLatLon
    \/ WriteDatum
    \/ CoreReturn

SpecCore == InitCore /\ [][NextCore]_vars

\* sequences of calls on datum-aware points
InitDatum == IdleDms /\ IdlePoint /\ IdleGrid /\ IdleCore /\ IdleBuild /\ IdleSite

NextDatum ==
    \/ NewPoint
    \/ ParsePoint
    \/ ThenConvertDatum
    \/ ThenToCartesian
    \/ ThenCartesianConvertDatum
    \/ ThenToLatLon
    \/ ThenToOsGrid
    \/ ThenGridToLatLon

SpecDatum == InitDatum /\ [][NextDatum]_vars

\* one construction of a point
InitConstruct == IdleDms /\ IdlePoint /\ IdleGrid /\ IdleCore /\ IdleBuild /\ IdleSite

NextConstruct == ConstructPoint

SpecConstruct == InitConstruct /\ [][NextConstruct]_vars

\* vectors made of any values, and the methods of a vector on any operand
InitVector == IdleDms /\ IdlePoint /\ IdleGrid /\ IdleCore /\ IdleBuild /\ IdleSite

NextVector ==
    \/ ConstructVector
    \/ CallPlus
    \/ CallMinus
    \/ CallDot
    \/ CallCross
    \/ CallTimes
    \/ CallDividedBy
    \/ CallAngleTo
    \/ CallRotateAround
    \/ CoreReturn

SpecVector == InitVector /\ [][NextVector]_vars

\* from WGS84 to each datum and back
InitRoundTrip == IdleDms /\ IdlePoint /\ IdleGrid /\ IdleCore /\ IdleBuild /\ IdleSite

NextRoundTrip ==
    \/ ConvertFromWGS84
    \/ ConvertBack
    \/ CoreReturn

SpecRoundTrip == InitRoundTrip /\ [][NextRoundTrip]_vars

\* getPopulation on small rasters
InitPopulation == IdleDms /\ IdlePoint /\ IdleGrid /\ IdleCore /\ IdleBuild /\ IdleSite

NextPopulation ==
    \/ CallGetPopulation
    \/ CoreReturn

SpecPopulation == InitPopulation /\ [][NextPopulation]_vars

\* Dms.toBrng on bearings
InitBearing == IdleDms /\ IdlePoint /\ IdleGrid /\ IdleCore /\ IdleBuild /\ IdleSite

NextBearing ==
    \/ CallToBrngOfBearing
    \/ DmsReturn

SpecBearing == InitBearing /\ [][NextBearing]_vars

\* toString, then parse of its text
InitReadBack == IdleDms /\ IdlePoint /\ IdleGrid /\ IdleCore /\ IdleBuild /\ IdleSite

NextReadBack ==
    \/ WriteRef
    \/ ReadRef
    \/ GridReturn

SpecReadBack == InitReadBack /\ [][NextReadBack]_vars

\* the page of the website, from its load on
InitSite == IdleDms /\ IdlePoint /\ IdleGrid /\ IdleCore /\ IdleBuild /\ IdleSite

NextSite ==
    \/ LoadMap
    \/ ClickToggle

SpecSite == InitSite /\ [][NextSite]_vars

\* runs of the build on one cell and one item
InitWeight == IdleDms /\ IdlePoint /\ IdleGrid /\ IdleCore /\ IdleBuild /\ IdleSite

NextWeight ==
    \/ StartRunOnCell
    \/ ReadLine
    \/ FinishLoad
    \/ SkipItem
    \/ QueryItem
    \/ ReturnData
    \/ WriteFile
    \/ LogSuccess
    \/ ExitOnError

SpecWeight == InitWeight /\ [][NextWeight]_vars

\* one call of LatLon.parse
InitParse == IdleDms /\ IdlePoint /\ IdleGrid /\ IdleCore /\ IdleBuild /\ IdleSite

NextParse ==
    \/ ParsePositional
    \/ ParseText
    \/ ParseObject
    \/ ParseGeoJSON

SpecParse == InitParse /\ [][NextParse]_vars

\* a run of the build script
InitBuild == IdleDms /\ IdlePoint /\ IdleGrid /\ IdleCore /\ IdleBuild /\ IdleSite

NextBuild ==
    \/ StartRun
    \/ ReadLine
    \/ FinishLoad
    \/ SkipItem
    \/ QueryItem
    \/ ReturnData
    \/ WriteFile
    \/ LogSuccess
    \/ ExitOnError

SpecBuild == InitBuild /\ [][NextBuild]_vars

===========================================================================
